---- MODULE Spec2Model ----
(***************************************************************************)
(* The /api/analyze run of src/server.js (the LLM-first variant, lines     *)
(* 744-1353): corpus checks, theme discovery, the batch classification     *)
(* loop with its retry / degrade handling, grouping on the AI path and on  *)
(* the keyword fallback path, and the response.                            *)
(*                                                                         *)
(* One run is one async handler.  Its suspension points are the awaited    *)
(* requests, timers and promise lists, so every action below is the code   *)
(* between two consecutive suspension points.  Confidences are kept in     *)
(* hundredths (0.5 is 50); a missing themeName is "" and a missing         *)
(* confidence is 0, which the code's `||` treats exactly like a missing    *)
(* field.                                                                  *)
(***************************************************************************)
EXTENDS Integers, Sequences, FiniteSets, TLC

(***************************************************************************)
(* Bounds of the model.                                                    *)
(***************************************************************************)
MaxRecords == 101
MaxThemes == 2
SmallCorpus == 2
MaxSliceRecords == 520
CeilingMargin == 30
MaxTextRecords == 2
MaxMixedRecords == 12
MaxSampleRecords == 60
TenBatchCorpus == 451
SampleMargin == 20
\* the largest corpus of the runs checked for termination: two batches
MaxFairRecords == 51
\* the corpus of the first of two concurrent runs: two batches
FirstRunRecords == 51
\* first variant: the largest number of processed comments (four topics)
MaxProcessed == 20

(***************************************************************************)
(* Program constants.                                                      *)
(***************************************************************************)
avgTokensPerComment == 20
TokenCeiling == 50000
maxBatches == 10
MinBatchSize == 50
DegradedConfidence == 50
MatchedConfidence == 70
UnmatchedConfidence == 30
DefaultConfidence == 50
SampleThreshold == 25000
SmallSample == 30
LargeSample == 50

(***************************************************************************)
(* Strings.                                                                *)
(***************************************************************************)
Max(a, b) == IF a >= b THEN a ELSE b
Min(a, b) == IF a <= b THEN a ELSE b

\* Math.ceil(a / b) for a >= 0, b > 0
CeilDiv(a, b) == (a + b - 1) \div b

\* String.prototype.includes
Includes(text, part) ==
  \E p \in 1..(Len(text) - Len(part) + 1) : SubSeq(text, p, p + Len(part) - 1) = part

Letters ==
  {"a", "b", "c", "d", "e", "f", "g", "h", "i", "j", "k", "l", "m",
   "n", "o", "p", "q", "r", "s", "t", "u", "v", "w", "x", "y", "z"}
Digits == {"0", "1", "2", "3", "4", "5", "6", "7", "8", "9"}
CharAt(text, p) == SubSeq(text, p, p)
IsWordChar(text, p) ==
  p >= 1 /\ p <= Len(text) /\ CharAt(text, p) \in (Letters \cup Digits \cup {"_"})

\* the matches of /\b[a-zA-Z]{3,}\b/g on a lowercase text: the maximal runs
\* of word characters that consist of three or more letters
RegexTokens(text) ==
  LET starts == {p \in 1..Len(text) : IsWordChar(text, p) /\ ~IsWordChar(text, p - 1)}
      EndOf(p) == CHOOSE q \in p..Len(text) :
                    /\ \A r \in p..q : IsWordChar(text, r)
                    /\ ~IsWordChar(text, q + 1)
  IN  {<<p, EndOf(p)>> : p \in starts} \cap
      {pq \in (1..Len(text)) \X (1..Len(text)) :
         /\ pq[2] - pq[1] + 1 >= 3
         /\ \A r \in pq[1]..pq[2] : CharAt(text, r) \in Letters}

\* the part of the stopword package's English list that the corpus texts use
StopWords == {"the", "and", "was", "were", "for", "with", "this", "that", "are",
              "but", "you", "all", "can", "had", "has", "have", "very"}

\* stopword.removeStopwords(tokens).filter(...): the tokens that remain
Tokens(text) ==
  {pq \in RegexTokens(text) : SubSeq(text, pq[1], pq[2]) \notin StopWords}

(***************************************************************************)
(* The corpus texts (comments after extraction: lowercase, trimmed).       *)
(***************************************************************************)
Texts == << "the room was expensive and the staff was rude",
            "great pool and friendly staff",
            "nothing to report today",
            "overall i think the price was worth the money",
            "the and was",
            "terrible experience but i love the spa" >>

\* further comments: equal keyword counts for two themes, and trigger words
\* that disagree with the scorer
MoreTexts == << "the price of the pool",
                "friendly staff at the pool and gym",
                "the gym i think",
                "expensive but great",
                "rude staff rude manager but perfect view",
                "rude staff" >>

AllTexts == Texts \o MoreTexts

TextSet == {AllTexts[k] : k \in 1..Len(AllTexts)}

\* per text: is any token left after stopword removal (processedComments filter)
HasTokens == [t \in TextSet |-> Tokens(t) # {}]

(***************************************************************************)
(* The lexical sentiment scorer, sentiment(text): the sum of the AFINN     *)
(* values of the words of the text, and that sum divided by the number of  *)
(* words (comparative).                                                   *)
(***************************************************************************)
Afinn(word) ==
  CASE word \in {"amazing", "wonderful", "fantastic"} -> 4
    [] word \in {"great", "love", "excellent", "perfect", "best"} -> 3
    [] word \in {"friendly", "worth"} -> 2
    [] word \in {"rude", "disappointed"} -> -2
    [] word \in {"terrible", "bad", "awful", "worst", "hate"} -> -3
    [] OTHER -> 0

\* the words of a text: its maximal runs of characters other than the space
WordSpans(text) ==
  LET IsChar(p) == p >= 1 /\ p <= Len(text) /\ CharAt(text, p) # " "
  IN  {pq \in (1..Len(text)) \X (1..Len(text)) :
         /\ pq[1] <= pq[2]
         /\ \A r \in pq[1]..pq[2] : IsChar(r)
         /\ ~IsChar(pq[1] - 1)
         /\ ~IsChar(pq[2] + 1)}

RECURSIVE SumAfinn(_, _)
SumAfinn(text, spans) ==
  IF spans = {} THEN 0
  ELSE LET pq == CHOOSE x \in spans : TRUE
       IN  Afinn(SubSeq(text, pq[1], pq[2])) + SumAfinn(text, spans \ {pq})

\* sentiment(text): score and number of words; comparative = score / words
sentiment == [t \in TextSet |->
                [score |-> SumAfinn(t, WordSpans(t)),
                 words |-> Cardinality(WordSpans(t))]]

NegativeTriggers == <<"expensive", "costly", "overpriced", "disappointed",
                      "terrible", "awful", "bad", "worst", "hate">>
PositiveTriggers == <<"great", "excellent", "amazing", "love", "perfect",
                      "wonderful", "best", "fantastic">>

AnyIncluded(text, parts) == \E k \in 1..Len(parts) : Includes(text, parts[k])

\* variant: the comparative thresholds are applied before the trigger words
MemberSentimentScoreFirst == [t \in TextSet |->
  IF 10 * sentiment[t].score > sentiment[t].words THEN "positive"
  ELSE IF 10 * sentiment[t].score < 0 - sentiment[t].words THEN "negative"
  ELSE IF AnyIncluded(t, NegativeTriggers) THEN "negative"
  ELSE IF AnyIncluded(t, PositiveTriggers) THEN "positive"
  ELSE "neutral"]

\* business context rules, then the comparative thresholds +-0.1
\* (comparative > 0.1 iff 10 * score > words)
MemberSentiment == [t \in TextSet |->
  IF AnyIncluded(t, NegativeTriggers) THEN "negative"
  ELSE IF AnyIncluded(t, PositiveTriggers) THEN "positive"
  ELSE IF 10 * sentiment[t].score > sentiment[t].words THEN "positive"
  ELSE IF 10 * sentiment[t].score < 0 - sentiment[t].words THEN "negative"
  ELSE "neutral"]

(***************************************************************************)
(* The Fallback Classifier's table and its keyword matching.               *)
(***************************************************************************)
fallbackThemes ==
  << [name |-> "Value and Pricing",
      keywords |-> <<"value", "price", "cost", "expensive", "cheap", "worth", "money", "budget">>],
     [name |-> "Service Quality",
      keywords |-> <<"service", "staff", "help", "friendly", "rude", "professional", "assistance">>],
     [name |-> "Amenities and Features",
      keywords |-> <<"pool", "gym", "spa", "restaurant", "room", "facility", "amenity", "activity">>],
     [name |-> "Experience and Satisfaction",
      keywords |-> <<"experience", "enjoy", "satisfied", "disappointed", "amazing", "terrible", "love", "hate">>],
     [name |-> "General Feedback",
      keywords |-> <<"overall", "general", "think", "feel", "opinion", "recommend", "suggest">>] >>

\* theme.keywords.filter(keyword => lowerComment.includes(keyword)).length
KeywordMatches(text, theme) ==
  Cardinality({k \in 1..Len(theme.keywords) : Includes(text, theme.keywords[k])})

\* variant: a theme also replaces the best one when its count is equal
RECURSIVE BestMatchFromLastWins(_, _, _)
BestMatchFromLastWins(text, k, best) ==
  IF k > Len(fallbackThemes) THEN best
  ELSE LET matches == KeywordMatches(text, fallbackThemes[k])
       IN  IF matches >= best.maxMatches /\ matches > 0
           THEN BestMatchFromLastWins(text, k + 1,
                              [bestMatch |-> fallbackThemes[k].name, maxMatches |-> matches])
           ELSE BestMatchFromLastWins(text, k + 1, best)

\* the forEach over fallbackThemes: a theme replaces the best one only when
\* its count is strictly greater
RECURSIVE BestMatchFrom(_, _, _)
BestMatchFrom(text, k, best) ==
  IF k > Len(fallbackThemes) THEN best
  ELSE LET matches == KeywordMatches(text, fallbackThemes[k])
       IN  IF matches > best.maxMatches
           THEN BestMatchFrom(text, k + 1,
                              [bestMatch |-> fallbackThemes[k].name, maxMatches |-> matches])
           ELSE BestMatchFrom(text, k + 1, best)

KeywordClassify == [t \in TextSet |->
                      BestMatchFrom(t, 1, [bestMatch |-> "Other", maxMatches |-> 0])]

(***************************************************************************)
(* State of one run.                                                       *)
(***************************************************************************)
VARIABLES
  pc,                    \* position of the handler: the suspension point it waits at
  results,               \* number of parsed CSV rows
  comments,              \* the extracted comments (the corpus), in order
  anthropic,             \* TRUE iff the client was created (API key set)
  sampleComments,        \* the comments sent with the discovery request
  identifiedThemes,      \* the discovered themes, in order
  commentClassifications,\* the accumulated classification entries
  i,                     \* start offset of the current batch
  themeTopics,           \* the promises awaited at line 1036: their status and the topics
                         \* that the callbacks returned
  finalTopics,           \* the returned groups (cleanTopics after the sort)
  response,              \* "none", "success" or "failure"
  errorMessage,          \* the error text of the failure branch taken, else ""
  path,                  \* which classifier built finalTopics: "none", "ai", "fallback"
  discoveryRequests,     \* discovery requests issued
  discoveryOutcome,      \* "none", "unconfigured", "pending", or how discovery settled
  batchLog,              \* one entry per batch iteration of the loop
  delays,                \* inter-batch 10 second timers started
  cooldowns,             \* 60 second cooldown timers started
  effects,               \* what the run did to the outside, in order: "unlink", "success",
                         \* "failure", and "unlinkThrows" for a removal that threw
  removable,             \* TRUE iff fs.unlinkSync can remove the uploaded file
  aborted,               \* TRUE iff the caller has closed the connection of the run
  other,                 \* the state of a second run of the handler that is suspended, if any
  run,                   \* which run the variables above belong to: 1 or 2
  topicAnalysis,         \* first variant: the locally built topics, in cluster order
  enhancedTopics,        \* first variant: what each topic's request callback returned
  pending,               \* first variant: topics whose request has not settled
  completionOrder        \* first variant: the topics in the order their requests settled

vars == <<pc, results, comments, anthropic, sampleComments, identifiedThemes, commentClassifications,
          i, finalTopics, response, effects, errorMessage, path, discoveryRequests, discoveryOutcome,
          batchLog, delays, cooldowns, removable, aborted, themeTopics, other, run,
          topicAnalysis, enhancedTopics, pending, completionOrder>>

\* the state of the per-topic enhancement of the first variant
enhancement == <<topicAnalysis, enhancedTopics, pending, completionOrder>>

n == Len(comments)

(***************************************************************************)
(* Corpus checks (lines 757-825).                                          *)
(***************************************************************************)
estimatedTokens == n * avgTokensPerComment

\* variant: the token filter of line 819 is left out
ProcessableCountUnfiltered == n

\* processedComments.length: comments with at least one token left
ProcessableCount == Cardinality({k \in 1..n : HasTokens[comments[k]]})

\* variant: the smaller cap already applies at the threshold
maxSampleSizeAtThreshold ==
  IF estimatedTokens >= SampleThreshold THEN SmallSample ELSE LargeSample

\* estimatedTokens > 25000 ? 30 : 50
maxSampleSize == IF estimatedTokens > SampleThreshold THEN SmallSample ELSE LargeSample

\* variant: the ceiling test is >= instead of >
CorpusErrorAtCeiling ==
  IF results = 0 THEN "CSV file appears to be empty or invalid"
  ELSE IF estimatedTokens >= TokenCeiling
  THEN "Dataset too large: " \o ToString(n) \o " comments (estimated "
         \o ToString(estimatedTokens)
         \o " tokens). Please reduce to under 2,000 comments to avoid API limits."
  ELSE IF ProcessableCount < 1
  THEN "Not enough valid comments to analyze. Found " \o ToString(ProcessableCount)
         \o " processable comments, need at least 1."
  ELSE "none"

\* the message of the first check that throws (lines 759, 799, 824), or "none"
CorpusError ==
  IF results = 0 THEN "CSV file appears to be empty or invalid"
  ELSE IF estimatedTokens > TokenCeiling
  THEN "Dataset too large: " \o ToString(n) \o " comments (estimated "
         \o ToString(estimatedTokens)
         \o " tokens). Please reduce to under 2,000 comments to avoid API limits."
  ELSE IF ProcessableCount < 1
  THEN "Not enough valid comments to analyze. Found " \o ToString(ProcessableCount)
         \o " processable comments, need at least 1."
  ELSE "none"

(***************************************************************************)
(* Batch sizing and slicing (lines 885-896).                               *)
(***************************************************************************)
\* variant: Math.floor instead of Math.ceil
batchSizeFloor == Max(MinBatchSize, n \div maxBatches)

batchSize == Max(MinBatchSize, CeilDiv(n, maxBatches))

\* variant: the slice takes one record too many (slice(i, i + batchSize + 1))
BatchLenOverlapping(start) == Min(start + batchSize + 1, n) - start

\* comments.slice(start, start + batchSize).length
BatchLen(start) == Min(start + batchSize, n) - start

\* identifiedThemes[0]?.name || 'Uncategorized': an empty list, and a first
\* theme whose name is empty or absent, give 'Uncategorized'
DegradedTheme(themes) ==
  IF Len(themes) > 0 /\ themes[1].name # "" THEN themes[1].name ELSE "Uncategorized"

\* the fallback classifications of the batch starting at offset start
Degraded(start, themes) ==
  [j \in 1..BatchLen(start) |->
     [commentIndex |-> start + j,
      themeName |-> DegradedTheme(themes),
      confidence |-> DegradedConfidence]]

(***************************************************************************)
(* What the external service can answer.  A request either fails with an   *)
(* error message or returns a text payload; of the payload the model keeps *)
(* whether JSON.parse accepts it, whether the parsed object carries the     *)
(* expected list, and the complete entries that the text contains.         *)
(***************************************************************************)
ThemeNames == <<"Pricing", "Service", "Rooms", "Food">>
UnknownTheme == "Miscellaneous"
ServiceConfidence == 90

RequestError(message) == [kind |-> "error", message |-> message]
Payload(parses, hasList, entries) ==
  [kind |-> "text", parses |-> parses, hasList |-> hasList, entries |-> entries]

\* a theme of the discovery answer (line 877): its name, its description ("" when
\* the answer gives none or an empty one) and what its keywords are, "array" or
\* "undefined"
Theme(name, description, keywords) ==
  [name |-> name, description |-> description, keywords |-> keywords]

\* a theme with the fields that the prompt asks for
NamedTheme(name) == Theme(name, "What this theme represents", "array")

\* identifiedThemes.map(t => t.name)
Names(themes) == [k \in 1..Len(themes) |-> themes[k].name]

\* what the discovery request can give: an error, text that does not parse, an
\* object without themes, 0 to MaxThemes themes with every field, and two
\* themes of which the first has no keywords (line 877 takes the list as it is)
DiscoveryShapes ==
  {<<"error", 0>>, <<"unparsable", 0>>, <<"noThemes", 0>>, <<"withoutKeywords", 2>>} \cup
  {<<"themes", k>> : k \in 0..MaxThemes}

\* theme lists that meet the object semantics of themeGroups: a name twice,
\* 'Uncategorized', array indices, an empty name, '__proto__' with and without
\* description and keywords, and a theme without keywords
UnusualThemes ==
  << <<NamedTheme("Pricing"), NamedTheme("Pricing")>>,
     <<NamedTheme("Uncategorized"), NamedTheme("Service")>>,
     <<NamedTheme("Pricing"), NamedTheme("2024")>>,
     <<NamedTheme(""), NamedTheme("Service")>>,
     <<NamedTheme("__proto__"), NamedTheme("Service")>>,
     <<NamedTheme("Pricing"), NamedTheme("10"), NamedTheme("9")>>,
     <<Theme("__proto__", "", "undefined"), NamedTheme("Service")>>,
     <<Theme("__proto__", "", "array"), NamedTheme("Service")>>,
     <<NamedTheme("Pricing"), Theme("Service", "", "undefined")>> >>
UnusualShapes == {<<"unusual", k>> : k \in 1..Len(UnusualThemes)}

DiscoveryResponse(shape) ==
  CASE shape[1] = "error"      -> RequestError("500 internal server error")
    [] shape[1] = "unparsable" -> Payload(FALSE, FALSE, <<>>)
    [] shape[1] = "noThemes"   -> Payload(TRUE, FALSE, <<>>)
    [] shape[1] = "unusual"    -> Payload(TRUE, TRUE, UnusualThemes[shape[2]])
    [] shape[1] = "withoutKeywords" ->
         Payload(TRUE, TRUE, <<Theme(ThemeNames[1], "What this theme represents", "undefined"),
                               NamedTheme(ThemeNames[2])>>)
    [] OTHER                   ->
         Payload(TRUE, TRUE, [k \in 1..shape[2] |-> NamedTheme(ThemeNames[k])])

\* the theme the service gives to record number idx (1-based in the corpus)
ServiceTheme(idx, themes) ==
  IF Len(themes) = 0 THEN "" ELSE themes[((idx - 1) % Len(themes)) + 1].name

\* variant: the prompt numbers the comments of a batch from 1
PromptNumbersWithinBatch(start) == [j \in 1..BatchLen(start) |-> j]

\* the numbers that the prompt gives the comments of the batch starting at
\* offset start: `${i + index + 1}. ${comment}`
PromptNumbers(start) == [j \in 1..BatchLen(start) |-> start + (j - 1) + 1]

\* a complete, correct answer for the batch starting at offset start: one
\* entry per numbered comment of the prompt
FullAnswer(start, themes) ==
  [j \in 1..BatchLen(start) |->
     [commentIndex |-> PromptNumbers(start)[j],
      themeName |-> ServiceTheme(start + j, themes),
      confidence |-> ServiceConfidence]]

\* number of trailing entries a short or truncated answer lacks
Missing(start) == Min(3, BatchLen(start))

BatchShapes == {"full", "short", "duplicate", "unknownTheme", "outOfRange", "relative",
                "noList", "truncated", "rateLimit", "error"}

BatchResponse(shape, start, themes) ==
  LET full == FullAnswer(start, themes)
      len  == BatchLen(start)
  IN  CASE shape = "full"         -> Payload(TRUE, TRUE, full)
        [] shape = "short"        -> Payload(TRUE, TRUE, SubSeq(full, 1, len - Missing(start)))
        [] shape = "duplicate"    -> Payload(TRUE, TRUE, Append(full, full[1]))
        [] shape = "unknownTheme" ->
             Payload(TRUE, TRUE, [full EXCEPT ![1].themeName = UnknownTheme])
        [] shape = "outOfRange"   ->
             Payload(TRUE, TRUE, [full EXCEPT ![len].commentIndex = n + 1])
        [] shape = "relative"     ->
             Payload(TRUE, TRUE, [j \in 1..len |-> [full[j] EXCEPT !.commentIndex = j]])
        [] shape = "noList"       -> Payload(TRUE, FALSE, <<>>)
        [] shape = "truncated"    -> Payload(FALSE, FALSE, SubSeq(full, 1, len - Missing(start)))
        [] shape = "partial"      ->
             Payload(TRUE, TRUE, [full EXCEPT ![1].themeName = "", ![len].confidence = 0])
        [] shape = "bare"         ->
             Payload(TRUE, TRUE,
                     [j \in 1..len |-> [full[j] EXCEPT !.themeName = "", !.confidence = 0]])
        [] shape = "inherited"    ->
             Payload(TRUE, TRUE, [full EXCEPT ![len].themeName = "constructor"])
        [] shape = "description"  ->
             Payload(TRUE, TRUE, [full EXCEPT ![1].themeName = "description"])
        [] shape = "keywords"     ->
             Payload(TRUE, TRUE, [full EXCEPT ![1].themeName = "keywords"])
        [] shape = "rateLimit"    -> RequestError("429 rate_limit_error")
        [] OTHER                  -> RequestError("529 overloaded_error")

(***************************************************************************)
(* One batch iteration (lines 924-989).                                    *)
(***************************************************************************)
\* variant: every request error is taken for a rate limit
IsRateLimitAnyError(resp) == resp.kind = "error"

\* batchError.message.includes('429') || ...includes('rate_limit_error')
IsRateLimit(resp) ==
  /\ resp.kind = "error"
  /\ (Includes(resp.message, "429") \/ Includes(resp.message, "rate_limit_error"))

\* variant: a parsed payload without the expected list is accepted
UsableWithoutList(resp) == resp.kind = "text" /\ resp.parses

\* JSON.parse(text) returns, and the spread of .classifications does not throw
Usable(resp) == resp.kind = "text" /\ resp.parses /\ resp.hasList

\* variant: a payload that cannot be parsed is skipped, nothing is pushed
FirstAttemptSkipsUnparsable(resp, start, themes) ==
  IF resp.kind = "text"
  THEN IF resp.parses
       THEN IF resp.hasList
            THEN [state |-> "Done", pushed |-> resp.entries]
            ELSE [state |-> "Degraded", pushed |-> Degraded(start, themes)]
       ELSE [state |-> "Degraded", pushed |-> <<>>]
  ELSE IF IsRateLimit(resp)
       THEN [state |-> "Cooldown", pushed |-> <<>>]
       ELSE [state |-> "Degraded", pushed |-> Degraded(start, themes)]

\* first attempt: what is pushed and the state the batch moves to
FirstAttempt(resp, start, themes) ==
  IF resp.kind = "text"
  THEN IF resp.parses
       THEN IF resp.hasList
            THEN [state |-> "Done", pushed |-> resp.entries]
            ELSE [state |-> "Degraded", pushed |-> Degraded(start, themes)]
       ELSE [state |-> "Degraded", pushed |-> Degraded(start, themes)]
  ELSE IF IsRateLimit(resp)
       THEN [state |-> "Cooldown", pushed |-> <<>>]
       ELSE [state |-> "Degraded", pushed |-> Degraded(start, themes)]

\* variant: a failed retry leaves the batch without classifications
RetryAttemptGivesUp(resp, start, themes) ==
  IF Usable(resp)
  THEN [state |-> "Done", pushed |-> resp.entries]
  ELSE [state |-> "Degraded", pushed |-> <<>>]

\* the single retry after the cooldown
RetryAttempt(resp, start, themes) ==
  IF Usable(resp)
  THEN [state |-> "Done", pushed |-> resp.entries]
  ELSE [state |-> "Degraded", pushed |-> Degraded(start, themes)]

(***************************************************************************)
(* Aggregation: per-group metrics (lines 1036-1124 and 1188-1263).         *)
(***************************************************************************)
(***************************************************************************)
(* Number arithmetic.  The numbers of the program are IEEE 754 doubles.    *)
(* A double x >= 0 below 2^18 whose lowest bit is at least 2^-72 is held   *)
(* exactly as a fixed-point number of five limbs of 18 bits, the least     *)
(* significant first: x = sum of x[j] * 2^(18 * (j - 1) - 72).  Every      *)
(* operation computes the exact result and rounds it to 53 significant     *)
(* bits, ties to even, as the hardware does.                               *)
(***************************************************************************)
Limb == 262144
Limbs == 5
Significand == 53

\* the one element of a singleton set
Value(S) == CHOOSE v \in S : TRUE

\* the integer k (0 <= k < 2^18) as a double
Double(k) == <<0, 0, 0, 0, k>>

\* 2^s as a fixed-point number (bits count from the lowest)
BitLimb(s, j) == IF j = (s \div 18) + 1 THEN 2^(s % 18) ELSE 0
Bit(s) == <<BitLimb(s, 1), BitLimb(s, 2), BitLimb(s, 3), BitLimb(s, 4), BitLimb(s, 5)>>

\* the limbs of a number given by limb values that may exceed a limb
Carried(v) ==
  LET c1 == v[1]
      c2 == v[2] + (c1 \div Limb)
      c3 == v[3] + (c2 \div Limb)
      c4 == v[4] + (c3 \div Limb)
      c5 == v[5] + (c4 \div Limb)
  IN  <<c1 % Limb, c2 % Limb, c3 % Limb, c4 % Limb, c5 % Limb>>

\* the exact sum, and the exact product with a small integer k
Plus(x, y) ==
  Value({Carried(v) : v \in {<<x[1] + y[1], x[2] + y[2], x[3] + y[3], x[4] + y[4], x[5] + y[5]>>}})
Times(x, k) ==
  Value({Carried(v) : v \in {<<x[1] * k, x[2] * k, x[3] * k, x[4] * k, x[5] * k>>}})

\* long division by a small integer k, from the highest limb down: the
\* quotient cut at the lowest bit, and the remainder
LongDivision(x, k) ==
  LET d5 == x[5]
      d4 == (d5 % k) * Limb + x[4]
      d3 == (d4 % k) * Limb + x[3]
      d2 == (d3 % k) * Limb + x[2]
      d1 == (d2 % k) * Limb + x[1]
  IN  [quotient |-> <<d1 \div k, d2 \div k, d3 \div k, d4 \div k, d5 \div k>>,
       remainder |-> d1 % k]

\* number of bits of a limb value
BitLength(v) == Cardinality({b \in 0..17 : 2^b <= v})

\* position of the highest set bit of x # 0
TopBit(x) ==
  LET top == CHOOSE j \in 1..Limbs : x[j] # 0 /\ \A o \in (j + 1)..Limbs : x[o] = 0
  IN  18 * (top - 1) + BitLength(x[top]) - 1

\* the low s bits of x, and x without them
LowLimb(x, s, j) ==
  IF 18 * j <= s THEN x[j]
  ELSE IF 18 * (j - 1) >= s THEN 0
  ELSE x[j] % 2^(s - 18 * (j - 1))
Low(x, s) == <<LowLimb(x, s, 1), LowLimb(x, s, 2), LowLimb(x, s, 3), LowLimb(x, s, 4), LowLimb(x, s, 5)>>
High(x, s) ==
  <<x[1] - LowLimb(x, s, 1), x[2] - LowLimb(x, s, 2), x[3] - LowLimb(x, s, 3),
    x[4] - LowLimb(x, s, 4), x[5] - LowLimb(x, s, 5)>>

\* -1, 0, 1 as x is less than, equal to, greater than y
Order(x, y) ==
  IF x = y THEN 0
  ELSE LET top == CHOOSE j \in 1..Limbs : x[j] # y[j] /\ \A o \in (j + 1)..Limbs : x[o] = y[o]
       IN  IF x[top] < y[top] THEN -1 ELSE 1

\* the double nearest to the exact value x (to x plus something below its
\* lowest bit when inexact is true), ties to even
Rounded(x, s, inexact) ==
  LET half == Order(Low(x, s), Bit(s - 1))
      odd  == (x[(s \div 18) + 1] \div 2^(s % 18)) % 2 = 1
  IN  IF half > 0 \/ (half = 0 /\ (inexact \/ odd))
      THEN Plus(High(x, s), Bit(s))
      ELSE High(x, s)
Round(x, inexact) ==
  IF x = Double(0) THEN x
  ELSE Value({IF s <= 0 THEN x ELSE Rounded(x, s, inexact) :
              s \in {TopBit(x) - (Significand - 1)}})

\* x + y, x * k and x / k in doubles
Add(x, y) == Value({Round(exact, FALSE) : exact \in {Plus(x, y)}})
Multiply(x, k) == Value({Round(exact, FALSE) : exact \in {Times(x, k)}})
Divide(x, k) ==
  Value({Round(division.quotient, division.remainder # 0) :
         division \in {LongDivision(x, k)}})

\* Math.round: the nearest integer, a half goes up
MathRound(x) == x[Limbs] + (IF x[Limbs - 1] >= Limb \div 2 THEN 1 ELSE 0)

\* a / b lies halfway between two integers
Half(a, b) == (2 * a) % b = 0 /\ ((2 * a) \div b) % 2 = 1

\* the integer nearest to a / b when a / b is not halfway
Nearest(a, b) == (2 * a + b) \div (2 * b)

\* Math.round((volume / total) * 100).  The double is within 1e-10 of the
\* exact quotient, so it rounds as the exact quotient does unless that is
\* halfway between two integers, where the double decides: 23 of 40 is 57
\* (57.49999999999999), 29 of 200 is 14, 1 of 8 is 13.
Percentage(volume, total) ==
  IF Half(100 * volume, total)
  THEN Value({MathRound(percent) :
              percent \in {Multiply(ratio, 100) :
                           ratio \in {Divide(Double(volume), total)}}})
  ELSE Nearest(100 * volume, total)

\* the double of a confidence given in hundredths (0.9 is 90)
Confidence(c) == Divide(Double(c), 100)

\* members.reduce((sum, c) => sum + c.confidence, 0): the members lo..hi
\* added in order to acc
RECURSIVE SumFrom(_, _, _, _)
SumFrom(members, lo, hi, acc) ==
  IF lo > hi THEN acc
  ELSE IF lo = hi
  THEN Value({Add(acc, c) : c \in {Confidence(members[lo].confidence)}})
  ELSE Value({SumFrom(members, ((lo + hi) \div 2) + 1, hi, left) :
              left \in {SumFrom(members, lo, (lo + hi) \div 2, acc)}})

\* the exact sum of the confidences, in hundredths
RECURSIVE SumConfidence(_, _)
SumConfidence(members, k) ==
  IF k = 0 THEN 0
  ELSE IF k = 1 THEN members[1].confidence
  ELSE LET half == k \div 2
       IN  SumConfidence(members, half)
             + SumConfidence(SubSeq(members, half + 1, k), k - half)

\* Math.round(sum / length * 100) of line 1116.  As for Percentage, the
\* doubles decide where the exact mean is halfway between two integers:
\* three members of 0.9 and thirteen of 0.5 give 57, not 58.
MeanConfidence(members) ==
  IF Half(SumConfidence(members, Len(members)), Len(members))
  THEN Value({MathRound(percent) :
              percent \in {Multiply(mean, 100) :
                           mean \in {Divide(sum, Len(members)) :
                                     sum \in {SumFrom(members, 1, Len(members), Double(0))}}}})
  ELSE Nearest(SumConfidence(members, Len(members)), Len(members))

\* number of members whose text has the given sentiment
SentimentCount(members, label) ==
  Cardinality({k \in 1..Len(members) :
                 MemberSentiment[comments[members[k].originalIndex + 1]] = label})

\* variant: a count that only equals the others already wins
SentimentClassificationTieWins(pos, neg, neu) ==
  IF pos >= neg /\ pos >= neu THEN "positive"
  ELSE IF neg >= pos /\ neg >= neu THEN "negative"
  ELSE "neutral"

\* strict majority, else neutral
SentimentClassification(pos, neg, neu) ==
  IF pos > neg /\ pos > neu THEN "positive"
  ELSE IF neg > pos /\ neg > neu THEN "negative"
  ELSE "neutral"

\* variant: the sentiment of the group is not looked at
BusinessImpactIgnoresSentiment(classification, percentage) ==
  IF percentage > 10 THEN "high"
  ELSE IF percentage > 15 THEN "medium"
  ELSE "low"

BusinessImpact(classification, percentage) ==
  IF classification = "negative" /\ percentage > 10 THEN "high"
  ELSE IF percentage > 15 THEN "medium"
  ELSE "low"

\* the object returned for one group
Topic(name, members, byAI) ==
  LET pos == SentimentCount(members, "positive")
      neg == SentimentCount(members, "negative")
      neu == SentimentCount(members, "neutral")
      volume == Len(members)
      percentage == Percentage(volume, n)
      classification == SentimentClassification(pos, neg, neu)
  IN  [title |-> name,
       volume |-> volume,
       percentage |-> percentage,
       sentiment |-> [classification |-> classification,
                      positive |-> pos, negative |-> neg, neutral |-> neu],
       confidence |-> MeanConfidence(members),
       businessImpact |-> BusinessImpact(classification, percentage),
       comments |-> members,
       enhancedByAI |-> byAI]

\* variant: groups without members are not filtered out
RECURSIVE TopicsOfKeepsEmpty(_, _, _, _)
TopicsOfKeepsEmpty(keys, k, membersOf, byAI) ==
  IF k > Len(keys) THEN <<>>
  ELSE LET members == membersOf[keys[k]]
           rest == TopicsOfKeepsEmpty(keys, k + 1, membersOf, byAI)
       IN  IF Len(members) > 0 THEN <<Topic(keys[k], members, byAI)>> \o rest
           ELSE <<[title |-> keys[k], volume |-> 0, percentage |-> 0,
                   sentiment |-> [classification |-> "neutral",
                                  positive |-> 0, negative |-> 0, neutral |-> 0],
                   confidence |-> 0, businessImpact |-> "low", comments |-> <<>>,
                   enhancedByAI |-> byAI]>> \o rest

\* Object.values(themeGroups).filter(group => group.comments.length > 0).map(...)
RECURSIVE TopicsOf(_, _, _, _)
TopicsOf(keys, k, membersOf, byAI) ==
  IF k > Len(keys) THEN <<>>
  ELSE LET members == membersOf[keys[k]]
           rest == TopicsOf(keys, k + 1, membersOf, byAI)
       IN  IF Len(members) > 0 THEN <<Topic(keys[k], members, byAI)>> \o rest ELSE rest

(***************************************************************************)
(* Grouping on the AI path (lines 997-1034).                               *)
(***************************************************************************)
KeySet(keys) == {keys[k] : k \in 1..Len(keys)}

\* themeGroups is a plain object.  Its own keys are the names assigned at
\* lines 998-1015: a name assigned again keeps its place, and the assignment
\* to '__proto__' replaces the prototype instead of adding a key.
RECURSIVE OwnKeys(_, _)
OwnKeys(names, k) ==
  IF k = 0 THEN <<>>
  ELSE LET before == OwnKeys(names, k - 1)
       IN  IF names[k] = "__proto__" \/ names[k] \in KeySet(before) THEN before
           ELSE Append(before, names[k])

\* the value of a decimal digit
DigitValue(char) == CHOOSE d \in 0..9 : ToString(d) = char

\* the numeral a stands for a smaller number than the numeral b
NumeralLess(a, b) ==
  \/ Len(a) < Len(b)
  \/ /\ Len(a) = Len(b)
     /\ \E c \in 1..Len(a) :
          /\ SubSeq(a, 1, c - 1) = SubSeq(b, 1, c - 1)
          /\ DigitValue(SubSeq(a, c, c)) < DigitValue(SubSeq(b, c, c))

\* the key is an array index: the canonical numeral of an integer below 2^32 - 1
IsIndex(key) ==
  /\ Len(key) >= 1
  /\ \A c \in 1..Len(key) : SubSeq(key, c, c) \in Digits
  /\ Len(key) > 1 => SubSeq(key, 1, 1) # "0"
  /\ NumeralLess(key, "4294967295")

\* index keys in ascending numeric order
RECURSIVE Ascending(_)
Ascending(keys) ==
  IF keys = <<>> THEN <<>>
  ELSE LET least == CHOOSE k \in 1..Len(keys) :
                      \A o \in 1..Len(keys) : o # k => NumeralLess(keys[k], keys[o])
           NotLeast(key) == key # keys[least]
       IN  <<keys[least]>> \o Ascending(SelectSeq(keys, NotLeast))

\* the keys of themeGroups in the order Object.values lists them (line 1036):
\* index keys first, ascending, then the other keys in insertion order
AIGroupKeys(themes) ==
  LET NotIndex(key) == ~IsIndex(key)
  IN  Value({Ascending(SelectSeq(own, IsIndex)) \o SelectSeq(own, NotIndex) :
             own \in {OwnKeys(Names(themes) \o <<"Uncategorized">>, Len(themes) + 1)}})

\* variant: the themeName of the entry is the key as it is
GroupKeyOfKeepsEmpty(entry) == entry.themeName

\* classification.themeName || 'Uncategorized'
GroupKeyOf(entry) == IF entry.themeName = "" THEN "Uncategorized" ELSE entry.themeName

\* the properties every object inherits from Object.prototype
ObjectPrototype ==
  {"constructor", "hasOwnProperty", "isPrototypeOf", "propertyIsEnumerable",
   "toLocaleString", "toString", "valueOf", "__defineGetter__", "__defineSetter__",
   "__lookupGetter__", "__lookupSetter__"}

\* the properties of a group object (lines 999-1005)
GroupFields == {"name", "description", "keywords", "comments", "commentIndices"}

\* the theme whose object themeGroups[name] was assigned last (line 999)
LastNamed(themes, name) ==
  themes[CHOOSE k \in 1..Len(themes) :
           themes[k].name = name /\ \A o \in (k + 1)..Len(themes) : themes[o].name # name]

\* the field of the group object of a theme is truthy: the name '__proto__' and
\* the arrays of lines 1003-1004 are, the description and the keywords are as
\* the theme gave them
FieldTruthy(theme, field) ==
  CASE field = "description" -> theme.description # ""
    [] field = "keywords"    -> theme.keywords = "array"
    [] OTHER                 -> TRUE

\* what themeGroups[name] is: the "group" of an own key; the "prototype"
\* group, which a theme named '__proto__' has put in the place of the
\* prototype; "inherited" for any other truthy value found on the prototype
\* chain, which has no comments array; or "undefined" for no value and for a
\* falsy field of the prototype group
Lookup(themes, name) ==
  IF name # "__proto__" /\ (name = "Uncategorized" \/ name \in KeySet(Names(themes)))
  THEN "group"
  ELSE IF name = "__proto__"
  THEN IF "__proto__" \in KeySet(Names(themes)) THEN "prototype" ELSE "inherited"
  ELSE IF name \in ObjectPrototype THEN "inherited"
  ELSE IF "__proto__" \in KeySet(Names(themes)) /\ name \in GroupFields
  THEN IF FieldTruthy(LastNamed(themes, "__proto__"), name) THEN "inherited" ELSE "undefined"
  ELSE "undefined"

\* if (themeGroups[themeName])
HasKey(themes, name) == Lookup(themes, name) # "undefined"

\* the members pushed to themeGroups[key]
AIMembers(cls, key) ==
  LET Belongs(entry) == GroupKeyOf(entry) = key
      kept == SelectSeq(cls, Belongs)
  IN  [k \in 1..Len(kept) |->
         [originalIndex |-> kept[k].commentIndex - 1,
          confidence |-> IF kept[k].confidence = 0 THEN DefaultConfidence
                         ELSE kept[k].confidence]]

\* group.keywords of the group of an own key: [] for 'Uncategorized' (line
\* 1012), else what the last theme of that name gave
GroupKeywords(themes, key) ==
  IF key = "Uncategorized" THEN "array" ELSE LastNamed(themes, key).keywords

\* the forEach of lines 1018-1031 throws: an entry whose themeName finds an
\* inherited value makes .comments.push throw (line 1024)
GroupingThrows(cls, themes) ==
  \E k \in 1..Len(cls) : Lookup(themes, GroupKeyOf(cls[k])) = "inherited"

\* a callback of line 1036 throws, so that its promise is rejected: the group
\* has keywords that are no array (group.keywords.map, line 1101), or a member
\* whose index names no comment and whose text is undefined (c.text.split,
\* line 1118)
AnalysisRejects(cls, themes) ==
  \E k \in 1..Len(cls) :
     /\ Lookup(themes, GroupKeyOf(cls[k])) = "group"
     /\ \/ cls[k].commentIndex - 1 \notin 0..(n - 1)
        \/ GroupKeywords(themes, GroupKeyOf(cls[k])) # "array"

\* the LLM path ends in the catch of line 1128
AIThrows(cls, themes) == GroupingThrows(cls, themes) \/ AnalysisRejects(cls, themes)

AITopics(cls, themes) ==
  Value({TopicsOf(keys, 1, [key \in KeySet(keys) |-> AIMembers(cls, key)], TRUE) :
         keys \in {AIGroupKeys(themes)}})

(***************************************************************************)
(* The Fallback Classifier (lines 1133-1186).                              *)
(***************************************************************************)
FallbackGroupKeys ==
  [k \in 1..Len(fallbackThemes) |-> fallbackThemes[k].name] \o <<"Other">>

\* the comments.forEach of lines 1163-1183: theme and confidence per comment
FallbackClassify ==
  [k \in 1..n |->
     [originalIndex |-> k - 1,
      bestMatch |-> KeywordClassify[comments[k]].bestMatch,
      confidence |-> IF KeywordClassify[comments[k]].maxMatches > 0
                     THEN MatchedConfidence ELSE UnmatchedConfidence]]

\* variant: a comment is pushed to every theme of which it holds a keyword
FallbackMembersEveryMatch(key) ==
  LET Belongs(c) ==
        IF key = "Other" THEN c.bestMatch = key
        ELSE \E k \in 1..Len(fallbackThemes) :
               /\ fallbackThemes[k].name = key
               /\ KeywordMatches(comments[c.originalIndex + 1], fallbackThemes[k]) > 0
      kept == SelectSeq(FallbackClassify, Belongs)
  IN  [m \in 1..Len(kept) |->
         [originalIndex |-> kept[m].originalIndex, confidence |-> kept[m].confidence]]

\* the members pushed to themeGroups[key], in corpus order
FallbackMembers(key) ==
  LET Belongs(c) == c.bestMatch = key
      kept == SelectSeq(FallbackClassify, Belongs)
  IN  [m \in 1..Len(kept) |->
         [originalIndex |-> kept[m].originalIndex, confidence |-> kept[m].confidence]]

\* variant: the fallback groups are flagged as AI-enhanced
FallbackTopicsFlaggedAI ==
  TopicsOf(FallbackGroupKeys, 1,
           [key \in KeySet(FallbackGroupKeys) |-> FallbackMembers(key)], TRUE)

FallbackTopics ==
  TopicsOf(FallbackGroupKeys, 1,
           [key \in KeySet(FallbackGroupKeys) |-> FallbackMembers(key)], FALSE)

(***************************************************************************)
(* cleanTopics.sort (lines 1276-1281): a stable sort, impact descending    *)
(* and then volume descending.                                             *)
(***************************************************************************)
ImpactOrder(impact) == CASE impact = "high" -> 3 [] impact = "medium" -> 2 [] OTHER -> 1

\* variant: groups of equal impact are ordered by volume ascending
CompareVolumeAscending(a, b) ==
  LET impactDiff == ImpactOrder(b.businessImpact) - ImpactOrder(a.businessImpact)
  IN  IF impactDiff # 0 THEN impactDiff ELSE a.volume - b.volume

\* the comparator: negative when a goes first
Compare(a, b) ==
  LET impactDiff == ImpactOrder(b.businessImpact) - ImpactOrder(a.businessImpact)
  IN  IF impactDiff # 0 THEN impactDiff ELSE b.volume - a.volume

\* insert t after every element that does not sort after it
RECURSIVE Insert(_, _)
Insert(sorted, t) ==
  IF sorted = <<>> THEN <<t>>
  ELSE IF Compare(Head(sorted), t) <= 0 THEN <<Head(sorted)>> \o Insert(Tail(sorted), t)
  ELSE <<t>> \o sorted

RECURSIVE SortTopics(_, _)
SortTopics(topics, k) ==
  IF k = 0 THEN <<>> ELSE Insert(SortTopics(topics, k - 1), topics[k])

(***************************************************************************)
(* The run.                                                                *)
(***************************************************************************)
\* no callback of line 1036 has run
NoAnalysis == [status |-> "none", topics |-> <<>>]

CorpusSizes ==
  {m \in 0..MaxRecords : m <= SmallCorpus \/ m % MinBatchSize <= 1}
    \cup {TokenCeiling \div avgTokensPerComment + 1}

\* the corpus of m comments that cycles through Texts from offset off
Corpus(m, off) == [k \in 1..m |-> Texts[((k - 1 + off) % Len(Texts)) + 1]]

Init ==
  /\ \E m \in CorpusSizes :
       \E off \in 0..(IF m <= SmallCorpus THEN Len(Texts) - 1 ELSE 0) :
         \E filtered \in 0..(IF m = 0 THEN 1 ELSE 0) :
           /\ comments = Corpus(m, off)
           /\ results = m + filtered
  /\ anthropic \in BOOLEAN
  /\ sampleComments = <<>>
  /\ pc = "start"
  /\ identifiedThemes = <<>>
  /\ commentClassifications = <<>>
  /\ i = 0
  /\ finalTopics = <<>>
  /\ response = "none"
  /\ errorMessage = ""
  /\ path = "none"
  /\ discoveryRequests = 0
  /\ discoveryOutcome = "none"
  /\ batchLog = <<>>
  /\ delays = 0
  /\ cooldowns = 0
  /\ effects = <<>>
  /\ removable = TRUE
  /\ aborted = FALSE
  /\ themeTopics = NoAnalysis
  /\ other = <<>>
  /\ run = 1
  /\ topicAnalysis = <<>>
  /\ enhancedTopics = <<>>
  /\ pending = {}
  /\ completionOrder = <<>>

\* the end of a run: the uploaded file is removed, then the response is sent
\* (lines 1308-1312, 1338-1339 and 1347-1348).  When fs.unlinkSync throws, no
\* response is sent: on the success path the throw of line 1308 is caught at
\* line 1336, where the second fs.unlinkSync throws out of the handler; on
\* the failure paths the one fs.unlinkSync throws out of the handler.
Respond(kind) ==
  IF removable
  THEN /\ effects' = effects \o <<"unlink", kind>>
       /\ response' = kind
  ELSE /\ effects' = effects \o (IF kind = "success"
                                 THEN <<"unlinkThrows", "unlinkThrows">>
                                 ELSE <<"unlinkThrows">>)
       /\ response' = response

\* the outer catch (lines 1336-1343)
Fail(message) ==
  /\ Respond("failure")
  /\ errorMessage' = "Analysis failed: " \o message
  /\ pc' = "done"
  /\ UNCHANGED <<finalTopics, path>>

\* variant: a group built from the batch entries is kept beside the keyword groups
FinishByFallbackKeepsBatchGroups ==
  LET kept == IF commentClassifications = <<>> THEN <<>>
              ELSE <<Topic("Uncategorized",
                           <<[originalIndex |-> 0, confidence |-> DefaultConfidence]>>, TRUE)>>
      all == FallbackTopics \o kept
  IN  /\ finalTopics' = SortTopics(all, Len(all))
      /\ path' = "fallback"
      /\ Respond("success")
      /\ pc' = "done"
      /\ UNCHANGED errorMessage

\* the catch of the LLM path (lines 1128-1266), then lines 1268-1334
FinishByFallback ==
  /\ finalTopics' = SortTopics(FallbackTopics, Len(FallbackTopics))
  /\ path' = "fallback"
  /\ Respond("success")
  /\ pc' = "done"
  /\ UNCHANGED errorMessage

\* the run leaves the batch loop with the accumulated entries cls (lines
\* 992-1036, up to the await): the entries are grouped and the callback of
\* every group with members runs to its end.  A throw of line 1024 is caught at
\* line 1128 at once and the run ends by the keyword table; otherwise the
\* handler awaits the promises of the callbacks, which are rejected when a
\* callback threw.
GroupByTheme(cls, themes) ==
  IF GroupingThrows(cls, themes)
  THEN /\ FinishByFallback
       /\ UNCHANGED themeTopics
  ELSE /\ themeTopics' = (IF AnalysisRejects(cls, themes)
                          THEN [status |-> "rejected", topics |-> <<>>]
                          ELSE [status |-> "fulfilled", topics |-> AITopics(cls, themes)])
       /\ pc' = "analysis"
       /\ UNCHANGED <<finalTopics, response, effects, errorMessage, path>>

\* variant: a rejection of the Promise.all reaches the outer catch
FinishByAIUncaught ==
  /\ pc = "analysis"
  /\ IF themeTopics.status = "rejected"
     THEN Fail("Cannot read properties of undefined (reading 'split')")
     ELSE /\ finalTopics' = SortTopics(themeTopics.topics, Len(themeTopics.topics))
          /\ path' = "ai"
          /\ Respond("success")
          /\ pc' = "done"
          /\ UNCHANGED errorMessage
  /\ UNCHANGED <<other, run, removable, aborted, themeTopics, enhancement, results, comments, anthropic,
                 sampleComments, identifiedThemes, commentClassifications, i,
                 discoveryRequests, discoveryOutcome, batchLog, delays, cooldowns>>

\* the await of line 1036 ends: the topics of the callbacks become finalTopics
\* (lines 1036-1126), or the rejection is caught at line 1128 and the keyword
\* table builds them; then lines 1268-1334
FinishByAI ==
  /\ pc = "analysis"
  /\ IF themeTopics.status = "rejected"
     THEN FinishByFallback
     ELSE /\ finalTopics' = SortTopics(themeTopics.topics, Len(themeTopics.topics))
          /\ path' = "ai"
          /\ Respond("success")
          /\ pc' = "done"
          /\ UNCHANGED errorMessage
  /\ UNCHANGED <<other, run, removable, aborted, themeTopics, enhancement, results, comments, anthropic,
                 sampleComments, identifiedThemes, commentClassifications, i,
                 discoveryRequests, discoveryOutcome, batchLog, delays, cooldowns>>

\* a new batch iteration starts at offset start: its log entry
\* (from: the number of entries accumulated before it)
NewBatch(start, from) ==
  [start |-> start, size |-> BatchLen(start), requests |-> 1,
   first |-> "pending", retry |-> "none", state |-> "Attempt1",
   from |-> from, pushed |-> 0]

\* variant: the delay is also waited before the first batch (i >= 0)
DelayBeforeEveryBatch(start) == start >= 0

\* if (i > 0): the 10 second delay precedes every batch but the first
DelayBefore(start) == start > 0

\* top of the loop body for the batch at offset start (lines 894-930): the
\* inter-batch timer is started, or the request is issued at once
EnterBatch(start, from, log) ==
  IF DelayBefore(start)
  THEN /\ delays' = delays + 1
       /\ batchLog' = log
       /\ pc' = "delay"
  ELSE /\ batchLog' = Append(log, NewBatch(start, from))
       /\ pc' = "attempt1"
       /\ UNCHANGED delays

\* messages of the errors the CSV parser emits
StreamErrorMessages == {"Row length does not match headers"}

\* 'error' of the CSV stream (lines 1345-1352): 'end' is not emitted, the file
\* is removed and the failure is sent
StreamError ==
  /\ pc = "start"
  /\ \E message \in StreamErrorMessages :
       errorMessage' = "File processing failed: " \o message
  /\ Respond("failure")
  /\ pc' = "done"
  /\ UNCHANGED <<other, run, removable, aborted, themeTopics, enhancement, results, comments, anthropic, sampleComments,
                 identifiedThemes, commentClassifications, i, finalTopics, path,
                 discoveryRequests, discoveryOutcome, batchLog, delays, cooldowns>>

\* 'end' of the CSV stream up to the discovery request (lines 753-874)
Analyze ==
  /\ pc = "start"
  /\ IF CorpusError # "none"
     THEN /\ Fail(CorpusError)
          /\ UNCHANGED <<discoveryRequests, discoveryOutcome, sampleComments>>
     ELSE IF ~anthropic
     THEN /\ FinishByFallback
          /\ discoveryOutcome' = "unconfigured"
          /\ UNCHANGED <<discoveryRequests, sampleComments>>
     ELSE /\ sampleComments' = SubSeq(comments, 1, Min(maxSampleSize, n))
          /\ discoveryRequests' = discoveryRequests + 1
          /\ discoveryOutcome' = "pending"
          /\ pc' = "discovery"
          /\ UNCHANGED <<finalTopics, response, effects, errorMessage, path>>
  /\ UNCHANGED <<other, run, removable, aborted, themeTopics, enhancement, results, comments, anthropic, identifiedThemes, commentClassifications,
                 i, batchLog, delays, cooldowns>>

\* the discovery request settles (lines 876-930): on failure the fallback,
\* otherwise the request of the first batch
DiscoveryReturnsFrom(shapes) ==
  /\ pc = "discovery"
  /\ \E shape \in shapes :
       LET resp == DiscoveryResponse(shape)
       IN  /\ discoveryOutcome' = shape[1]
           /\ IF Usable(resp)
              THEN /\ identifiedThemes' = resp.entries
                   /\ i' = 0
                   /\ EnterBatch(0, 0, <<>>)
                   /\ UNCHANGED <<finalTopics, response, effects, errorMessage, path>>
              ELSE /\ FinishByFallback
                   /\ UNCHANGED <<identifiedThemes, i, batchLog, delays>>
  /\ UNCHANGED <<other, run, removable, aborted, themeTopics, enhancement, results, comments, anthropic, sampleComments,
                 commentClassifications,
                 discoveryRequests, cooldowns>>

DiscoveryReturns == DiscoveryReturnsFrom(DiscoveryShapes)

\* variant: the loop is left while one more batch remains
AdvanceStopsEarly(cls, log) ==
  /\ commentClassifications' = cls
  /\ IF i + 2 * batchSize < n
     THEN /\ i' = i + batchSize
          /\ EnterBatch(i + batchSize, Len(cls), log)
          /\ UNCHANGED <<finalTopics, response, effects, errorMessage, path, themeTopics>>
     ELSE /\ GroupByTheme(cls, identifiedThemes)
          /\ batchLog' = log
          /\ UNCHANGED <<i, delays>>

\* the current batch has pushed its entries: the loop advances (line 893), to
\* the 10 second timer of the next batch or out of the loop to the grouping
\* and the await of line 1036
Advance(cls, log) ==
  /\ commentClassifications' = cls
  /\ IF i + batchSize < n
     THEN /\ i' = i + batchSize
          /\ EnterBatch(i + batchSize, Len(cls), log)
          /\ UNCHANGED <<finalTopics, response, effects, errorMessage, path, themeTopics>>
     ELSE /\ GroupByTheme(cls, identifiedThemes)
          /\ batchLog' = log
          /\ UNCHANGED <<i, delays>>

\* variant: the cooldown and the retry follow every first attempt that did not
\* yield a classification list, unparsable responses included
Attempt1ReturnsCoolsAfterAnyFailure(shapes) ==
  /\ pc = "attempt1"
  /\ \E shape \in shapes :
       LET resp == BatchResponse(shape, i, identifiedThemes)
           out  == FirstAttempt(resp, i, identifiedThemes)
           b    == Len(batchLog)
       IN  IF out.state # "Done"
           THEN /\ cooldowns' = cooldowns + 1
                /\ batchLog' = [batchLog EXCEPT ![b].first = shape, ![b].state = "Cooldown"]
                /\ pc' = "cooldown"
                /\ UNCHANGED themeTopics
                /\ UNCHANGED <<commentClassifications, i, finalTopics, response, effects,
                               errorMessage, path, delays>>
           ELSE /\ Advance(commentClassifications \o out.pushed,
                           [batchLog EXCEPT ![b].first = shape, ![b].state = out.state,
                                            ![b].pushed = Len(out.pushed)])
                /\ UNCHANGED cooldowns
  /\ UNCHANGED <<other, run, removable, aborted, enhancement, results, comments, anthropic, sampleComments,
                 identifiedThemes, discoveryRequests,
                 discoveryOutcome>>

\* the first request of the current batch settles (lines 932-989) with one
\* of the given answers
Attempt1ReturnsFrom(shapes) ==
  /\ pc = "attempt1"
  /\ \E shape \in shapes :
       LET resp == BatchResponse(shape, i, identifiedThemes)
           out  == FirstAttempt(resp, i, identifiedThemes)
           b    == Len(batchLog)
       IN  IF out.state = "Cooldown"
           THEN /\ cooldowns' = cooldowns + 1
                /\ batchLog' = [batchLog EXCEPT ![b].first = shape, ![b].state = "Cooldown"]
                /\ pc' = "cooldown"
                /\ UNCHANGED themeTopics
                /\ UNCHANGED <<commentClassifications, i, finalTopics, response, effects, errorMessage,
                               path, delays>>
           ELSE /\ Advance(commentClassifications \o out.pushed,
                           [batchLog EXCEPT ![b].first = shape, ![b].state = out.state,
                                            ![b].pushed = Len(out.pushed)])
                /\ UNCHANGED cooldowns
  /\ UNCHANGED <<other, run, removable, aborted, enhancement, results, comments, anthropic, sampleComments,
                 identifiedThemes, discoveryRequests,
                 discoveryOutcome>>

Attempt1Returns == Attempt1ReturnsFrom(BatchShapes)

\* the 60 second cooldown ends: the retry request is issued (lines 957-965)
CooldownEnds ==
  /\ pc = "cooldown"
  /\ batchLog' = [batchLog EXCEPT ![Len(batchLog)].requests = @ + 1,
                                  ![Len(batchLog)].state = "Attempt2"]
  /\ pc' = "attempt2"
  /\ UNCHANGED <<other, run, removable, aborted, themeTopics, enhancement, results, comments, anthropic, sampleComments,
                 identifiedThemes, commentClassifications, i,
                 finalTopics, response, effects, errorMessage, path, discoveryRequests, discoveryOutcome,
                 delays, cooldowns>>

\* variant: a retry that is rate-limited again waits and retries again
Attempt2ReturnsRetriesAgain(shapes) ==
  /\ pc = "attempt2"
  /\ \E shape \in shapes :
       LET resp == BatchResponse(shape, i, identifiedThemes)
           out  == RetryAttempt(resp, i, identifiedThemes)
           b    == Len(batchLog)
       IN  IF IsRateLimit(resp)
           THEN /\ cooldowns' = cooldowns + 1
                /\ batchLog' = [batchLog EXCEPT ![b].state = "Cooldown"]
                /\ pc' = "cooldown"
                /\ UNCHANGED themeTopics
                /\ UNCHANGED <<commentClassifications, i, finalTopics, response, effects, errorMessage,
                               path, delays>>
           ELSE /\ Advance(commentClassifications \o out.pushed,
                           [batchLog EXCEPT ![b].retry = shape, ![b].state = out.state,
                                            ![b].pushed = Len(out.pushed)])
                /\ UNCHANGED cooldowns
  /\ UNCHANGED <<other, run, removable, aborted, enhancement, results, comments, anthropic, sampleComments,
                 identifiedThemes, discoveryRequests, discoveryOutcome>>

\* the retry request settles (lines 966-978) with one of the given answers
Attempt2ReturnsFrom(shapes) ==
  /\ pc = "attempt2"
  /\ \E shape \in shapes :
       LET resp == BatchResponse(shape, i, identifiedThemes)
           out  == RetryAttempt(resp, i, identifiedThemes)
           b    == Len(batchLog)
       IN  Advance(commentClassifications \o out.pushed,
                   [batchLog EXCEPT ![b].retry = shape, ![b].state = out.state,
                                    ![b].pushed = Len(out.pushed)])
  /\ UNCHANGED <<other, run, removable, aborted, enhancement, results, comments, anthropic, sampleComments,
                 identifiedThemes, discoveryRequests,
                 discoveryOutcome, cooldowns>>

Attempt2Returns == Attempt2ReturnsFrom(BatchShapes)

\* variant: when the timer ends the requests of the next two batches are issued
\* together, without awaiting the first of them
DelayEndsIssuesTwo ==
  /\ pc = "delay"
  /\ batchLog' =
       (IF i + batchSize < n
        THEN Append(Append(batchLog, NewBatch(i, Len(commentClassifications))),
                    NewBatch(i + batchSize, Len(commentClassifications)))
        ELSE Append(batchLog, NewBatch(i, Len(commentClassifications))))
  /\ pc' = "attempt1"
  /\ UNCHANGED <<other, run, removable, aborted, themeTopics, enhancement, results, comments, anthropic, sampleComments,
                 identifiedThemes, commentClassifications, i,
                 finalTopics, response, effects, errorMessage, path, discoveryRequests, discoveryOutcome,
                 delays, cooldowns>>

\* the 10 second inter-batch timer ends: the next batch's request is issued
DelayEnds ==
  /\ pc = "delay"
  /\ batchLog' = Append(batchLog, NewBatch(i, Len(commentClassifications)))
  /\ pc' = "attempt1"
  /\ UNCHANGED <<other, run, removable, aborted, themeTopics, enhancement, results, comments, anthropic, sampleComments,
                 identifiedThemes, commentClassifications, i,
                 finalTopics, response, effects, errorMessage, path, discoveryRequests, discoveryOutcome,
                 delays, cooldowns>>

Next ==
  \/ StreamError
  \/ Analyze
  \/ DiscoveryReturns
  \/ Attempt1Returns
  \/ CooldownEnds
  \/ Attempt2Returns
  \/ DelayEnds
  \/ FinishByAI

Spec == Init /\ [][Next]_vars

\* the caller closes the connection while the handler is suspended in the batch
\* loop (the awaits of lines 901, 924, 957 and 966).  The handler registers no
\* 'close' or 'aborted' listener on req or res and never tests the connection
\* (lines 744-1353), so nothing of the run changes
Abort ==
  /\ pc \in {"attempt1", "cooldown", "attempt2", "delay"}
  /\ ~aborted
  /\ aborted' = TRUE
  /\ UNCHANGED <<pc, results, comments, anthropic, sampleComments, identifiedThemes,
                 commentClassifications, i, finalTopics, response, effects, errorMessage,
                 path, discoveryRequests, discoveryOutcome, batchLog, delays, cooldowns,
                 removable, themeTopics, other, run, enhancement>>

\* the runs of the handler whose caller may abort
AbortNext ==
  \/ Next
  \/ Abort

AbortSpec == Init /\ [][AbortNext]_vars

\* sizes of the corpora of the runs checked for termination: none, one batch,
\* and two batches with the timer between them
FairSizes == {0, 1, SmallCorpus, MaxFairRecords - 1, MaxFairRecords}

FairInit ==
  /\ \E m \in FairSizes :
       \E filtered \in 0..(IF m = 0 THEN 1 ELSE 0) :
         /\ comments = Corpus(m, 0)
         /\ results = m + filtered
  /\ anthropic \in BOOLEAN
  /\ sampleComments = <<>>
  /\ pc = "start"
  /\ identifiedThemes = <<>>
  /\ commentClassifications = <<>>
  /\ i = 0
  /\ finalTopics = <<>>
  /\ response = "none"
  /\ errorMessage = ""
  /\ path = "none"
  /\ discoveryRequests = 0
  /\ discoveryOutcome = "none"
  /\ batchLog = <<>>
  /\ delays = 0
  /\ cooldowns = 0
  /\ effects = <<>>
  /\ removable \in BOOLEAN
  /\ aborted = FALSE
  /\ themeTopics = NoAnalysis
  /\ other = <<>>
  /\ run = 1
  /\ topicAnalysis = <<>>
  /\ enhancedTopics = <<>>
  /\ pending = {}
  /\ completionOrder = <<>>

\* the points at which the handler is suspended: the 'end' event of the CSV
\* stream (line 753) and the awaits of lines 869, 901, 924, 957, 966 and 1036
Awaits == {"start", "discovery", "attempt1", "cooldown", "attempt2", "delay", "analysis"}

\* the handler, suspended at point p, is resumed: the stream ends, the request
\* settles or the timer fires, and the handler runs on to its next suspension
Resumed(p) ==
  /\ pc = p
  /\ pc' \in (Awaits \cup {"done"}) \ {p}

\* the runs in which the CSV stream ends, every request settles, every timer
\* fires and the settled promises of line 1036 resume the handler: no
\* suspension of the handler lasts forever
FairSpec ==
  /\ FairInit
  /\ [][Next]_vars
  /\ \A p \in Awaits : WF_pc(Resumed(p))

(***************************************************************************)
(* The batch loop alone (lines 885-896), for corpora of every size up to   *)
(* MaxSliceRecords: the offsets and slices that the loop forms, without    *)
(* the requests.                                                           *)
(***************************************************************************)
SliceInit ==
  /\ \E m \in 1..MaxSliceRecords :
       /\ comments = Corpus(m, 0)
       /\ results = m
  /\ anthropic = TRUE
  /\ sampleComments = <<>>
  /\ pc = "slicing"
  /\ identifiedThemes = <<>>
  /\ commentClassifications = <<>>
  /\ i = 0
  /\ finalTopics = <<>>
  /\ response = "none"
  /\ errorMessage = ""
  /\ path = "none"
  /\ discoveryRequests = 1
  /\ discoveryOutcome = "themes"
  /\ batchLog = <<NewBatch(0, 0)>>
  /\ delays = 0
  /\ cooldowns = 0
  /\ effects = <<>>
  /\ removable = TRUE
  /\ aborted = FALSE
  /\ themeTopics = NoAnalysis
  /\ other = <<>>
  /\ run = 1
  /\ topicAnalysis = <<>>
  /\ enhancedTopics = <<>>
  /\ pending = {}
  /\ completionOrder = <<>>

\* i += batchSize and the loop test i < comments.length
SliceStep ==
  /\ pc = "slicing"
  /\ IF i + batchSize < n
     THEN /\ i' = i + batchSize
          /\ batchLog' = Append(batchLog, NewBatch(i + batchSize, 0))
          /\ pc' = pc
     ELSE /\ pc' = "sliced"
          /\ UNCHANGED <<i, batchLog>>
  /\ UNCHANGED <<other, run, removable, aborted, themeTopics, enhancement, results, comments, anthropic, sampleComments,
                 identifiedThemes, commentClassifications,
                 finalTopics, response, effects, errorMessage, path, discoveryRequests, discoveryOutcome,
                 delays, cooldowns>>

SliceSpec == SliceInit /\ [][SliceStep]_vars

(***************************************************************************)
(* Two runs of the handler at once.  Node runs one callback at a time, so  *)
(* the runs interleave at their suspension points only.  Everything a run  *)
(* keeps is a const or let of its own invocation of the handler (lines     *)
(* 745-747, 784, 807, 829, 877, 884), the promises awaited at line 1036    *)
(* included; the client `anthropic` (line 731) is a module constant that   *)
(* both runs read.  The variables hold the state of the run that executes, *)
(* `other` the closure of the suspended run.                               *)
(***************************************************************************)
\* the locals of the executing run
Suspended ==
  [pc |-> pc, results |-> results, comments |-> comments,
   sampleComments |-> sampleComments, identifiedThemes |-> identifiedThemes,
   commentClassifications |-> commentClassifications, i |-> i,
   themeTopics |-> themeTopics,
   finalTopics |-> finalTopics, response |-> response, effects |-> effects,
   errorMessage |-> errorMessage, path |-> path,
   discoveryRequests |-> discoveryRequests, discoveryOutcome |-> discoveryOutcome,
   batchLog |-> batchLog, delays |-> delays, cooldowns |-> cooldowns]

\* variant: the accumulator is one array of the module, shared by the runs
SwitchSharesAccumulator ==
  /\ other' = Suspended
  /\ run' = 3 - run
  /\ pc' = other.pc
  /\ results' = other.results
  /\ comments' = other.comments
  /\ sampleComments' = other.sampleComments
  /\ identifiedThemes' = other.identifiedThemes
  /\ i' = other.i
  /\ themeTopics' = other.themeTopics
  /\ finalTopics' = other.finalTopics
  /\ response' = other.response
  /\ effects' = other.effects
  /\ errorMessage' = other.errorMessage
  /\ path' = other.path
  /\ discoveryRequests' = other.discoveryRequests
  /\ discoveryOutcome' = other.discoveryOutcome
  /\ batchLog' = other.batchLog
  /\ delays' = other.delays
  /\ cooldowns' = other.cooldowns
  /\ UNCHANGED <<commentClassifications, anthropic, removable, aborted, enhancement>>

\* the event loop turns to the other run: the executing run stays suspended
\* at its await, the callback that resumes next belongs to the other run
Switch ==
  /\ other' = Suspended
  /\ run' = 3 - run
  /\ pc' = other.pc
  /\ results' = other.results
  /\ comments' = other.comments
  /\ sampleComments' = other.sampleComments
  /\ identifiedThemes' = other.identifiedThemes
  /\ commentClassifications' = other.commentClassifications
  /\ i' = other.i
  /\ themeTopics' = other.themeTopics
  /\ finalTopics' = other.finalTopics
  /\ response' = other.response
  /\ effects' = other.effects
  /\ errorMessage' = other.errorMessage
  /\ path' = other.path
  /\ discoveryRequests' = other.discoveryRequests
  /\ discoveryOutcome' = other.discoveryOutcome
  /\ batchLog' = other.batchLog
  /\ delays' = other.delays
  /\ cooldowns' = other.cooldowns
  /\ UNCHANGED <<anthropic, removable, aborted, enhancement>>

\* the locals of a run that has just received the 'end' event of a CSV stream
\* with the m comments that cycle through Texts from offset off
Started(m, off) ==
  [pc |-> "start", results |-> m, comments |-> Corpus(m, off),
   sampleComments |-> <<>>, identifiedThemes |-> <<>>,
   commentClassifications |-> <<>>, i |-> 0,
   themeTopics |-> NoAnalysis,
   finalTopics |-> <<>>, response |-> "none", effects |-> <<>>,
   errorMessage |-> "", path |-> "none",
   discoveryRequests |-> 0, discoveryOutcome |-> "none",
   batchLog |-> <<>>, delays |-> 0, cooldowns |-> 0]

\* run 1 has a corpus of two batches, run 2 a small corpus of other comments
TwoRunInit ==
  /\ comments = Corpus(FirstRunRecords, 0)
  /\ results = FirstRunRecords
  /\ anthropic \in BOOLEAN
  /\ sampleComments = <<>>
  /\ pc = "start"
  /\ identifiedThemes = <<>>
  /\ commentClassifications = <<>>
  /\ i = 0
  /\ finalTopics = <<>>
  /\ response = "none"
  /\ errorMessage = ""
  /\ path = "none"
  /\ discoveryRequests = 0
  /\ discoveryOutcome = "none"
  /\ batchLog = <<>>
  /\ delays = 0
  /\ cooldowns = 0
  /\ effects = <<>>
  /\ removable = TRUE
  /\ aborted = FALSE
  /\ themeTopics = NoAnalysis
  /\ other = Started(SmallCorpus, 1)
  /\ run = 1
  /\ topicAnalysis = <<>>
  /\ enhancedTopics = <<>>
  /\ pending = {}
  /\ completionOrder = <<>>

\* a step of the executing run, or a turn to the other run
TwoRunNext ==
  \/ Analyze
  \/ DiscoveryReturns
  \/ Attempt1ReturnsFrom({"full", "truncated", "rateLimit"})
  \/ CooldownEnds
  \/ Attempt2ReturnsFrom({"full", "error"})
  \/ DelayEnds
  \/ FinishByAI
  \/ Switch

TwoRunSpec == TwoRunInit /\ [][TwoRunNext]_vars

(***************************************************************************)
(* The first variant of the handler (lines 1-384): topics are built        *)
(* locally from round-robin clusters (lines 98-225), then every topic is   *)
(* sent to the service at once and the results are awaited together with   *)
(* Promise.all (lines 230-299).  A run is given by the number of processed *)
(* comments, by which clusters read as negative and by the term that       *)
(* natural.TfIdf weighs highest in each cluster.                           *)
(***************************************************************************)
\* const numTopics = Math.min(8, Math.max(1, Math.floor(length / 5))) (line 98)
numTopics(processed) == Min(8, Max(1, processed \div 5))

\* topics[c].documents.length after docIndex % numTopics (lines 124-129), for
\* cluster c counted from 1
ClusterSize(processed, c) ==
  Cardinality({d \in 0..(processed - 1) : d % numTopics(processed) = c - 1})

\* which clusters have a negative mean sentiment
NegativePatterns == {"none", "first", "all"}
ClusterSentiment(pattern, c) ==
  IF pattern = "all" \/ (pattern = "first" /\ c = 1) THEN "negative" ELSE "neutral"

\* per cluster the term of greatest weight (lines 165-172), "" for a cluster
\* whose documents have no terms
TermLists ==
  {<<"delivery", "terrible", "breakfast", "staff", "room", "pool", "price", "view">>,
   <<"terrible", "", "breakfast", "", "room", "", "price", "">>}

\* topTerms of cluster c, of which the model keeps the first
TopTerms(terms, c) == IF terms[c] = "" THEN <<>> ELSE <<[term |-> terms[c]]>>

\* `Theme ${clusterId + 1}: ${topTerms[0]?.term || 'Unknown'}` (line 202)
LocalTitle(clusterId, topTerms) ==
  "Theme " \o ToString(clusterId + 1) \o ": "
    \o (IF Len(topTerms) > 0 /\ topTerms[1].term # "" THEN topTerms[1].term ELSE "Unknown")

\* businessImpact of lines 220-222
LocalImpact(classification, size, total) ==
  IF classification = "negative" /\ size * 10 > total THEN "high"
  ELSE IF size * 100 > total * 15 THEN "medium"
  ELSE "low"

\* the record pushed to topicAnalysis for cluster c (lines 200-224)
LocalTopic(processed, pattern, terms, c) ==
  [topicId |-> c,
   title |-> LocalTitle(c - 1, TopTerms(terms, c)),
   volume |-> ClusterSize(processed, c),
   percentage |-> Percentage(ClusterSize(processed, c), processed),
   sentiment |-> ClusterSentiment(pattern, c),
   businessImpact |-> LocalImpact(ClusterSentiment(pattern, c),
                                  ClusterSize(processed, c), processed)]

\* topics.forEach of lines 154-225: empty clusters are skipped
LocalTopics(processed, pattern, terms) ==
  LET all == [c \in 1..numTopics(processed) |-> LocalTopic(processed, pattern, terms, c)]
  IN  SelectSeq(all, LAMBDA t : t.volume # 0)

\* how the request of one topic ends
TopicOutcomes == {"ok", "requestError", "parseError"}

\* the parsed answer of the service for a topic
LlmResponse(topic) ==
  [themeName |-> ThemeNames[((topic.topicId - 1) % Len(ThemeNames)) + 1],
   description |-> "description",
   mainConcern |-> "concern"]

\* return {...topic, title, llmDescription, mainConcern, comments, enhancedByAI: true}
Enhanced(topic) ==
  [topicId |-> topic.topicId,
   title |-> LlmResponse(topic).themeName,
   volume |-> topic.volume,
   percentage |-> topic.percentage,
   sentiment |-> topic.sentiment,
   businessImpact |-> topic.businessImpact,
   llmDescription |-> LlmResponse(topic).description,
   mainConcern |-> LlmResponse(topic).mainConcern,
   enhancedByAI |-> TRUE]

\* the inner catch (lines 282-288): return {...topic, enhancedByAI: false}
NotEnhanced(topic) ==
  [topicId |-> topic.topicId,
   title |-> topic.title,
   volume |-> topic.volume,
   percentage |-> topic.percentage,
   sentiment |-> topic.sentiment,
   businessImpact |-> topic.businessImpact,
   enhancedByAI |-> FALSE]

\* what the callback of a topic returns (lines 257-288)
TopicResult(topic, outcome) ==
  IF outcome = "ok" THEN Enhanced(topic) ELSE NotEnhanced(topic)

EnhanceInit ==
  /\ \E processed \in 1..MaxProcessed : \E pattern \in NegativePatterns :
       \E terms \in TermLists :
          topicAnalysis = LocalTopics(processed, pattern, terms)
  /\ anthropic \in BOOLEAN
  /\ pc = "local"
  /\ enhancedTopics = <<>>
  /\ pending = {}
  /\ completionOrder = <<>>
  /\ results = 0
  /\ comments = <<>>
  /\ sampleComments = <<>>
  /\ identifiedThemes = <<>>
  /\ commentClassifications = <<>>
  /\ i = 0
  /\ finalTopics = <<>>
  /\ response = "none"
  /\ errorMessage = ""
  /\ path = "none"
  /\ discoveryRequests = 0
  /\ discoveryOutcome = "none"
  /\ batchLog = <<>>
  /\ delays = 0
  /\ cooldowns = 0
  /\ effects = <<>>
  /\ removable = TRUE
  /\ aborted = FALSE
  /\ themeTopics = NoAnalysis
  /\ other = <<>>
  /\ run = 1

\* lines 302-345: finalTopics are cleaned and sorted, the file is removed and
\* the success response is sent
Return(topics) ==
  /\ finalTopics' = SortTopics(topics, Len(topics))
  /\ Respond("success")
  /\ pc' = "done"

\* lines 230-234: with a client and topics, the callback of every topic runs
\* up to its await (line 258) and the handler awaits them all; otherwise the
\* local topics are returned
StartEnhancement ==
  /\ pc = "local"
  /\ IF anthropic /\ Len(topicAnalysis) > 0
     THEN /\ pending' = 1..Len(topicAnalysis)
          /\ pc' = "enhancing"
          /\ UNCHANGED <<finalTopics, response, effects>>
     ELSE /\ Return(topicAnalysis)
          /\ UNCHANGED pending
  /\ UNCHANGED <<other, run, removable, aborted, themeTopics, results, comments, anthropic, sampleComments, identifiedThemes,
                 commentClassifications, i, errorMessage, path, discoveryRequests,
                 discoveryOutcome, batchLog, delays, cooldowns,
                 topicAnalysis, enhancedTopics, completionOrder>>

\* variant: without the inner catch a failed topic rejects the Promise.all and
\* the outer catch (line 294) keeps the local topics for every topic
TopicReturnsUncaught ==
  /\ pc = "enhancing"
  /\ \E k \in pending : \E outcome \in TopicOutcomes :
       LET settled == [j \in (DOMAIN enhancedTopics) \cup {k} |->
                         IF j = k THEN TopicResult(topicAnalysis[k], outcome)
                         ELSE enhancedTopics[j]]
       IN  /\ pending' = pending \ {k}
           /\ completionOrder' = Append(completionOrder, <<k, outcome>>)
           /\ IF outcome # "ok"
              THEN /\ enhancedTopics' = enhancedTopics
                   /\ Return(topicAnalysis)
              ELSE /\ enhancedTopics' = settled
                   /\ UNCHANGED <<pc, finalTopics, response, effects>>
  /\ UNCHANGED <<other, run, removable, aborted, themeTopics, results, comments, anthropic, sampleComments, identifiedThemes,
                 commentClassifications, i, errorMessage, path, discoveryRequests,
                 discoveryOutcome, batchLog, delays, cooldowns, topicAnalysis>>

\* the request of one pending topic settles (lines 258-288): its callback
\* runs on and returns the topic, enhanced or as it was; the handler stays
\* suspended at the await of line 234
TopicReturns ==
  /\ pc = "enhancing"
  /\ \E k \in pending : \E outcome \in TopicOutcomes :
       LET settled == [j \in (DOMAIN enhancedTopics) \cup {k} |->
                         IF j = k THEN TopicResult(topicAnalysis[k], outcome)
                         ELSE enhancedTopics[j]]
       IN  /\ pending' = pending \ {k}
           /\ completionOrder' = Append(completionOrder, <<k, outcome>>)
           /\ enhancedTopics' = settled
           /\ UNCHANGED <<pc, finalTopics, response, effects>>
  /\ UNCHANGED <<other, run, removable, aborted, themeTopics, results, comments, anthropic, sampleComments, identifiedThemes,
                 commentClassifications, i, errorMessage, path, discoveryRequests,
                 discoveryOutcome, batchLog, delays, cooldowns, topicAnalysis>>

\* every callback has returned: the Promise.all of line 234 is resolved with
\* the results in topic order and the handler runs on (lines 292-345)
EnhancementCompleted ==
  /\ pc = "enhancing"
  /\ pending = {}
  /\ Return(enhancedTopics)
  /\ UNCHANGED <<other, run, removable, aborted, themeTopics, results, comments, anthropic, sampleComments, identifiedThemes,
                 commentClassifications, i, errorMessage, path, discoveryRequests,
                 discoveryOutcome, batchLog, delays, cooldowns,
                 topicAnalysis, enhancedTopics, pending, completionOrder>>

EnhanceNext ==
  \/ StartEnhancement
  \/ TopicReturns
  \/ EnhancementCompleted

EnhanceSpec == EnhanceInit /\ [][EnhanceNext]_vars

\* metadata.aiEnhanced of the success response (line 1321)
aiEnhanced == \E t \in 1..Len(finalTopics) : finalTopics[t].enhancedByAI

(***************************************************************************)
(* The corpus checks alone (lines 757-825), for corpora around the token   *)
(* ceiling: the run up to its first suspension point.                      *)
(***************************************************************************)
ChecksInit ==
  /\ \E m \in (TokenCeiling \div avgTokensPerComment - CeilingMargin) ..
              (TokenCeiling \div avgTokensPerComment + CeilingMargin) :
       /\ comments = Corpus(m, 0)
       /\ results = m
  /\ anthropic \in BOOLEAN
  /\ sampleComments = <<>>
  /\ pc = "start"
  /\ identifiedThemes = <<>>
  /\ commentClassifications = <<>>
  /\ i = 0
  /\ finalTopics = <<>>
  /\ response = "none"
  /\ errorMessage = ""
  /\ path = "none"
  /\ discoveryRequests = 0
  /\ discoveryOutcome = "none"
  /\ batchLog = <<>>
  /\ delays = 0
  /\ cooldowns = 0
  /\ effects = <<>>
  /\ removable = TRUE
  /\ aborted = FALSE
  /\ themeTopics = NoAnalysis
  /\ other = <<>>
  /\ run = 1
  /\ topicAnalysis = <<>>
  /\ enhancedTopics = <<>>
  /\ pending = {}
  /\ completionOrder = <<>>

ChecksSpec == ChecksInit /\ [][Analyze]_vars

(***************************************************************************)
(* Runs over every corpus of 1..MaxTextRecords comments drawn from         *)
(* AllTexts, and over the corpora of up to MaxMixedRecords comments that   *)
(* cycle through AllTexts: such a corpus is one batch, so the inter-batch  *)
(* delay never starts.                                                     *)
(***************************************************************************)
RECURSIVE CorporaOf(_)
CorporaOf(len) ==
  IF len = 0 THEN {<<>>}
  ELSE {Append(c, t) : c \in CorporaOf(len - 1), t \in TextSet}

\* the corpus of m comments that cycles through AllTexts from offset off
Mixed(m, off) == [k \in 1..m |-> AllTexts[((k - 1 + off) % Len(AllTexts)) + 1]]

TextsInit ==
  /\ \/ \E len \in 1..MaxTextRecords : comments \in CorporaOf(len)
     \/ \E m \in (MaxTextRecords + 1)..MaxMixedRecords :
          \E off \in 0..(Len(AllTexts) - 1) : comments = Mixed(m, off)
  /\ results = Len(comments)
  /\ anthropic \in BOOLEAN
  /\ sampleComments = <<>>
  /\ pc = "start"
  /\ identifiedThemes = <<>>
  /\ commentClassifications = <<>>
  /\ i = 0
  /\ finalTopics = <<>>
  /\ response = "none"
  /\ errorMessage = ""
  /\ path = "none"
  /\ discoveryRequests = 0
  /\ discoveryOutcome = "none"
  /\ batchLog = <<>>
  /\ delays = 0
  /\ cooldowns = 0
  /\ effects = <<>>
  /\ removable = TRUE
  /\ aborted = FALSE
  /\ themeTopics = NoAnalysis
  /\ other = <<>>
  /\ run = 1
  /\ topicAnalysis = <<>>
  /\ enhancedTopics = <<>>
  /\ pending = {}
  /\ completionOrder = <<>>

TextsNext ==
  \/ Analyze
  \/ DiscoveryReturns
  \/ Attempt1Returns
  \/ CooldownEnds
  \/ Attempt2Returns
  \/ FinishByAI

TextsSpec == TextsInit /\ [][TextsNext]_vars

(***************************************************************************)
(* Runs on the small corpora in which the service leaves fields out of the *)
(* entries it returns: a first entry without themeName and a last entry    *)
(* without confidence ("partial"), or entries with neither ("bare"); in     *)
(* which it names a property of Object.prototype as the theme of an entry  *)
(* ("inherited") or of a group object ("description", "keywords"); and in  *)
(* which discovery returns the UnusualThemes.                              *)
(***************************************************************************)
EntriesNext ==
  \/ Analyze
  \/ DiscoveryReturnsFrom(DiscoveryShapes \cup UnusualShapes)
  \/ Attempt1ReturnsFrom({"full", "partial", "bare", "inherited", "description", "keywords",
                          "rateLimit"})
  \/ CooldownEnds
  \/ Attempt2ReturnsFrom({"partial", "error"})
  \/ FinishByAI

EntriesSpec == TextsInit /\ [][EntriesNext]_vars

(***************************************************************************)
(* The run up to the discovery request (lines 753-874) for corpora of up   *)
(* to MaxSampleRecords comments and for corpora around the sample          *)
(* threshold of 25000 estimated tokens.                                    *)
(***************************************************************************)
SampleInit ==
  /\ \E m \in (1..MaxSampleRecords) \cup
              ((SampleThreshold \div avgTokensPerComment - SampleMargin) ..
               (SampleThreshold \div avgTokensPerComment + SampleMargin)) :
       /\ comments = Corpus(m, 0)
       /\ results = m
  /\ anthropic \in BOOLEAN
  /\ sampleComments = <<>>
  /\ pc = "start"
  /\ identifiedThemes = <<>>
  /\ commentClassifications = <<>>
  /\ i = 0
  /\ finalTopics = <<>>
  /\ response = "none"
  /\ errorMessage = ""
  /\ path = "none"
  /\ discoveryRequests = 0
  /\ discoveryOutcome = "none"
  /\ batchLog = <<>>
  /\ delays = 0
  /\ cooldowns = 0
  /\ effects = <<>>
  /\ removable = TRUE
  /\ aborted = FALSE
  /\ themeTopics = NoAnalysis
  /\ other = <<>>
  /\ run = 1
  /\ topicAnalysis = <<>>
  /\ enhancedTopics = <<>>
  /\ pending = {}
  /\ completionOrder = <<>>

SampleSpec == SampleInit /\ [][Analyze]_vars

(***************************************************************************)
(* Runs over a corpus of ten batches.  Every first request is answered     *)
(* completely or with a rate limit, and every retry is rate-limited again, *)
(* so that a run can issue the greatest number of requests.                *)
(***************************************************************************)
RequestsInit ==
  /\ comments = Corpus(TenBatchCorpus, 0)
  /\ results = Len(comments)
  /\ anthropic = TRUE
  /\ sampleComments = <<>>
  /\ pc = "start"
  /\ identifiedThemes = <<>>
  /\ commentClassifications = <<>>
  /\ i = 0
  /\ finalTopics = <<>>
  /\ response = "none"
  /\ errorMessage = ""
  /\ path = "none"
  /\ discoveryRequests = 0
  /\ discoveryOutcome = "none"
  /\ batchLog = <<>>
  /\ delays = 0
  /\ cooldowns = 0
  /\ effects = <<>>
  /\ removable = TRUE
  /\ aborted = FALSE
  /\ themeTopics = NoAnalysis
  /\ other = <<>>
  /\ run = 1
  /\ topicAnalysis = <<>>
  /\ enhancedTopics = <<>>
  /\ pending = {}
  /\ completionOrder = <<>>

RequestsNext ==
  \/ Analyze
  \/ DiscoveryReturns
  \/ Attempt1ReturnsFrom({"full", "rateLimit"})
  \/ CooldownEnds
  \/ Attempt2ReturnsFrom({"rateLimit"})
  \/ DelayEnds
  \/ FinishByAI

RequestsSpec == RequestsInit /\ [][RequestsNext]_vars

(***************************************************************************)
(* Properties.                                                             *)
(***************************************************************************)
\* the batch loop has been left
LoopExited == batchLog # <<>> /\ pc \in {"analysis", "done", "sliced"}

Batches == 1..Len(batchLog)

\* the batch has reached a final state
Settled(b) == batchLog[b].state \in {"Done", "Degraded"}

\* the entries that batch b pushed to the accumulator
Segment(b) ==
  SubSeq(commentClassifications, batchLog[b].from + 1, batchLog[b].from + batchLog[b].pushed)

\* the responses that batch b received
FirstResponse(b) == BatchResponse(batchLog[b].first, batchLog[b].start, identifiedThemes)
RetryResponse(b) == BatchResponse(batchLog[b].retry, batchLog[b].start, identifiedThemes)

\* number of accumulated entries that carry record number idx
EntriesFor(idx) ==
  Cardinality({k \in 1..Len(commentClassifications) :
                 commentClassifications[k].commentIndex = idx})

\* C1: once the batch loop has been left, the accumulated classifications hold
\* exactly one entry for every record number 1..n, whatever the service answered.
C1_OneEntryPerRecord ==
  (LoopExited /\ pc = "done") =>
     /\ Len(commentClassifications) = n
     /\ \A idx \in 1..n : EntriesFor(idx) = 1

RECURSIVE SumVolumes(_, _)
SumVolumes(topics, k) ==
  IF k = 0 THEN 0 ELSE topics[k].volume + SumVolumes(topics, k - 1)

\* C2: in every success result, on the AI path and on the fallback path, the
\* volumes of the returned groups sum to the number of comments.
C2_VolumesSumToTotal ==
  response = "success" => SumVolumes(finalTopics, Len(finalTopics)) = n

\* the record indices (0-based) of batch b
BatchRange(b) == batchLog[b].start .. (batchLog[b].start + batchLog[b].size - 1)

\* C3: the batches start at offsets 0, batchSize, 2*batchSize, ..., are non-empty,
\* contiguous and in corpus order, and once the loop has been left every record
\* index 0..n-1 lies in exactly one batch.
C3_BatchesPartition ==
  /\ \A b \in Batches :
       /\ batchLog[b].start = (b - 1) * batchSize
       /\ batchLog[b].size >= 1
       /\ BatchRange(b) \subseteq 0..(n - 1)
       /\ b < Len(batchLog) =>
            batchLog[b + 1].start = batchLog[b].start + batchLog[b].size
  /\ LoopExited =>
       \A idx \in 0..(n - 1) : Cardinality({b \in Batches : idx \in BatchRange(b)}) = 1

\* C3 witness: a corpus above the batch floor has been sliced into three or
\* more batches, the last one shorter than the others
C3_Witness ==
  /\ pc = "sliced"
  /\ batchSize > MinBatchSize
  /\ Len(batchLog) >= 3
  /\ batchLog[Len(batchLog)].size < batchSize

\* the response that decided batch b could not be parsed
Unparsable(resp) == resp.kind = "text" /\ ~resp.parses
DecidedUnparsable(b) ==
  /\ Settled(b)
  /\ IF batchLog[b].retry = "none" THEN Unparsable(FirstResponse(b))
     ELSE Unparsable(RetryResponse(b))

\* the name of the first discovered theme, 'Uncategorized' when there is none
\* (or when it has no name)
FirstThemeOrUncategorized ==
  IF identifiedThemes = <<>> \/ identifiedThemes[1].name = "" THEN "Uncategorized"
  ELSE identifiedThemes[1].name

\* batch b pushed one degraded entry per record of the batch: record numbers
\* start+1 .. start+size, the first theme or 'Uncategorized', confidence 0.5
PushedDegraded(b) ==
  /\ batchLog[b].pushed = batchLog[b].size
  /\ \A j \in 1..batchLog[b].size :
       /\ Segment(b)[j].commentIndex = batchLog[b].start + j
       /\ Segment(b)[j].themeName = FirstThemeOrUncategorized
       /\ Segment(b)[j].confidence = 50

\* C4: a batch of N records whose response cannot be parsed contributes exactly
\* N degraded classifications, one per record; it is never dropped.
C4_UnparsableBatchDegraded ==
  \A b \in Batches : DecidedUnparsable(b) => PushedDegraded(b)

\* C4 witness: a batch of several records was answered by an unparsable payload
C4_Witness ==
  \E b \in Batches :
    /\ DecidedUnparsable(b)
    /\ batchLog[b].size >= 2
    /\ batchLog[b].retry = "none"

\* C5: of a truncated response the complete entries are kept as the service
\* gave them, and only the missing trailing records are degraded.
C5_TruncatedEntriesRecovered ==
  \A b \in Batches :
    (Settled(b) /\ batchLog[b].retry = "none" /\ Unparsable(FirstResponse(b))) =>
       LET given == FirstResponse(b).entries
       IN  /\ batchLog[b].pushed = batchLog[b].size
           /\ \A j \in 1..Len(given) : Segment(b)[j] = given[j]
           /\ \A j \in (Len(given) + 1)..batchLog[b].size :
                /\ Segment(b)[j].commentIndex = batchLog[b].start + j
                /\ Segment(b)[j].confidence = 50

\* C5 failing case: a truncated payload that still holds complete entries
C5_TruncatedSeen ==
  \E b \in Batches :
    /\ Settled(b) /\ batchLog[b].retry = "none" /\ Unparsable(FirstResponse(b))
    /\ Len(FirstResponse(b).entries) > 0

\* the error carries the rate-limit signal
RateSignal(resp) == resp.kind = "error" /\ resp.message = "429 rate_limit_error"

\* the moves of the per-batch state machine
BatchMove(old, new) ==
  \/ new = old
  \/ old = "Attempt1" /\ new \in {"Done", "Degraded", "Cooldown"}
  \/ old = "Cooldown" /\ new = "Attempt2"
  \/ old = "Attempt2" /\ new \in {"Done", "Degraded"}

\* what the log and the accumulator hold for batch b in each state of the machine
BatchMachine(b) ==
  LET e == batchLog[b]
  IN  /\ e.requests \in {1, 2}
      /\ e.state = "Attempt1" => e.requests = 1 /\ e.first = "pending" /\ e.pushed = 0
      /\ e.state = "Cooldown" =>
           e.requests = 1 /\ RateSignal(FirstResponse(b)) /\ e.retry = "none" /\ e.pushed = 0
      /\ e.state = "Attempt2" =>
           e.requests = 2 /\ RateSignal(FirstResponse(b)) /\ e.retry = "none" /\ e.pushed = 0
      /\ Settled(b) =>
           /\ (e.requests = 2) = RateSignal(FirstResponse(b))
           /\ (e.requests = 2) = (e.retry # "none")
           /\ e.retry # "none" =>
                IF RetryResponse(b).kind = "text" /\ RetryResponse(b).parses
                   /\ RetryResponse(b).hasList
                THEN e.state = "Done" /\ Segment(b) = RetryResponse(b).entries
                ELSE e.state = "Degraded" /\ PushedDegraded(b)

\* C6: every batch follows Attempt1 -> Done | Degraded | (rate limit: Cooldown ->
\* Attempt2 -> Done | Degraded): at most two requests, the second one only after a
\* rate-limited first one and its cooldown; a successful retry pushes the retry's
\* entries once, a failed retry degrades every record of the batch.
C6_BatchStateMachine ==
  [][\A b \in 1..Len(batchLog') :
       /\ BatchMachine(b)'
       /\ IF b <= Len(batchLog)
          THEN BatchMove(batchLog[b].state, batchLog'[b].state)
          ELSE batchLog'[b].state = "Attempt1"]_vars

\* C6 witness: a rate-limited batch was retried and the retry succeeded, and
\* another rate-limited batch was retried and the retry failed
C6_Witness ==
  /\ \E b \in Batches :
       batchLog[b].retry = "full" /\ batchLog[b].state = "Done" /\ batchLog[b].requests = 2
  /\ \E b \in Batches :
       batchLog[b].retry \in {"error", "truncated", "rateLimit"}
       /\ batchLog[b].state = "Degraded" /\ batchLog[b].requests = 2

\* the first request of batch b failed with an error that is no rate limit
OtherFailure(b) ==
  /\ batchLog[b].first # "pending"
  /\ FirstResponse(b).kind = "error"
  /\ ~RateSignal(FirstResponse(b))

\* C7: a batch whose request fails with an error other than a rate limit is
\* degraded at once: one request, no retry, no cooldown, one degraded entry per record.
C7_OtherFailureDegradesAtOnce ==
  /\ \A b \in Batches :
       OtherFailure(b) =>
          /\ batchLog[b].state = "Degraded"
          /\ batchLog[b].requests = 1
          /\ batchLog[b].retry = "none"
          /\ PushedDegraded(b)
  /\ cooldowns = Cardinality({b \in Batches :
                                batchLog[b].first # "pending" /\ RateSignal(FirstResponse(b))})

\* C7 witness: a batch of several records failed with such an error
C7_Witness == \E b \in Batches : OtherFailure(b) /\ batchLog[b].size >= 2

\* the theme the keyword table gives a text: 'Other' without any match, else the
\* first theme in table order among those with the greatest number of matches
TableChoice(text, title) ==
  LET Matches(k) == KeywordMatches(text, fallbackThemes[k])
      themes == 1..Len(fallbackThemes)
  IN  IF \A k \in themes : Matches(k) = 0
      THEN title = "Other"
      ELSE \E k \in themes :
             /\ title = fallbackThemes[k].name
             /\ \A o \in themes : Matches(o) <= Matches(k)
             /\ \A o \in themes : o < k => Matches(o) < Matches(k)

TableTheme == [t \in TextSet |->
                 CHOOSE title \in KeySet(FallbackGroupKeys) :
                   TableChoice(t, title)]

\* the places (group, member) of the result that hold record index idx (0-based)
PlacesOf(idx) ==
  {tm \in (1..Len(finalTopics)) \X (1..n) :
     /\ tm[2] <= Len(finalTopics[tm[1]].comments)
     /\ finalTopics[tm[1]].comments[tm[2]].originalIndex = idx}

\* every record sits in exactly one returned group, the group of its table theme,
\* and no group is flagged as AI-enhanced
AllByKeywordTable ==
  /\ \A t \in 1..Len(finalTopics) : ~finalTopics[t].enhancedByAI
  /\ \A idx \in 0..(n - 1) :
       /\ Cardinality(PlacesOf(idx)) = 1
       /\ \A tm \in PlacesOf(idx) : finalTopics[tm[1]].title = TableTheme[comments[idx + 1]]

DiscoveryFailed == discoveryOutcome \in {"unconfigured", "error", "unparsable", "noThemes"}

\* C8 as stated: a run issues exactly one discovery request and never retries
\* it, so that a run which has returned its result has issued one; after a
\* failed discovery (capability not configured, request error, payload without
\* the theme list) no batch request is issued and every record is classified by
\* the Fallback Classifier.
C8_ExactlyOneDiscoveryRequest ==
  /\ discoveryRequests <= 1
  /\ response = "success" => discoveryRequests = 1
  /\ DiscoveryFailed =>
       /\ batchLog = <<>>
       /\ pc = "done"
       /\ path = "fallback"
       /\ AllByKeywordTable

\* C8 amended: a run with the capability configured whose corpus passes the
\* checks issues exactly one discovery request and never retries it; a run
\* without the capability, or one whose corpus is rejected, issues none.  After
\* a failed discovery no batch request is issued and every record is
\* classified by the Fallback Classifier.
C8_SingleDiscoveryThenFallback ==
  /\ discoveryRequests = (IF discoveryOutcome \in {"none", "unconfigured"} THEN 0 ELSE 1)
  /\ ~anthropic => discoveryRequests = 0
  /\ (anthropic /\ response = "success") => discoveryRequests = 1
  /\ (pc = "done" /\ response = "failure") => discoveryRequests = 0
  /\ DiscoveryFailed =>
       /\ batchLog = <<>>
       /\ pc = "done"
       /\ path = "fallback"
       /\ AllByKeywordTable

\* C8 witness: the discovery request was issued and failed, for several records
C8_Witness ==
  /\ discoveryOutcome \in {"error", "unparsable", "noThemes"}
  /\ discoveryRequests = 1
  /\ n >= 2
  /\ pc = "done"

\* the CSV stream failed: the analysis never started
StreamFailed == Includes(errorMessage, "File processing failed")

\* C9: without a configured capability the run issues no request, and for a
\* corpus that passes the checks it returns a success result in which no group
\* is AI-enhanced and every record is classified through the keyword table.
C9_UnconfiguredUsesKeywordTable ==
  ~anthropic =>
     /\ discoveryRequests = 0
     /\ batchLog = <<>>
     /\ (pc = "done" /\ CorpusError = "none" /\ ~StreamFailed) =>
          /\ response = "success"
          /\ path = "fallback"
          /\ AllByKeywordTable

\* C9 witness: an unconfigured run has returned groups for several records
C9_Witness ==
  /\ ~anthropic
  /\ response = "success"
  /\ n >= 2
  /\ Len(finalTopics) >= 2

\* C10: for a corpus that passes the checks the run never ends in failure,
\* whatever fails in discovery or in the batches.
C10_NoFailureAfterChecks ==
  (CorpusError = "none" /\ ~StreamFailed) =>
     /\ response # "failure"
     /\ pc = "done" => response = "success"

\* C10 witness: success after a batch that was rate limited and whose retry failed
\* and after the analysis awaited at line 1036 was rejected
C10_Witness ==
  /\ response = "success"
  /\ \E b \in Batches : batchLog[b].requests = 2 /\ batchLog[b].state = "Degraded"
  /\ themeTopics.status = "rejected"
  /\ AIThrows(commentClassifications, identifiedThemes)

\* no request of any kind has been issued
NoExternalCall == discoveryRequests = 0 /\ batchLog = <<>>

\* neither classifier has produced groups
NoClassifierResult == path = "none" /\ finalTopics = <<>>

\* C12: a corpus of more than 2500 comments (estimated tokens above 50000) ends
\* in a failure with the 'Dataset too large' cause and no request is ever issued;
\* a corpus of 2500 comments or fewer is not rejected as too large.
C12_OversizeFailsBeforeAnyCall ==
  /\ (n * 20 > 50000) = (n > 2500)
  /\ n > 2500 =>
       /\ NoExternalCall
       /\ NoClassifierResult
       /\ (pc # "start" /\ ~StreamFailed) =>
            /\ pc = "done"
            /\ response = "failure"
            /\ Includes(errorMessage, "Dataset too large")
  /\ (n <= 2500 /\ results > 0) => ~Includes(errorMessage, "Dataset too large")

\* C12 witness: an oversized corpus was rejected although the capability is configured
C12_Witness ==
  /\ n > 2500
  /\ anthropic
  /\ response = "failure"

\* no comment keeps a token after the stopword filter
NoRecordProcessable == \A k \in 1..n : Tokens(comments[k]) = {}

\* C13 as stated: an empty corpus, or one without processable records, ends in a
\* failure that carries the minimum-record-count message, without any request
\* and without a classifier result.
C13_EmptyCorpusMinimumCountMessage ==
  ((results = 0 \/ NoRecordProcessable) /\ pc = "done" /\ ~StreamFailed) =>
     /\ response = "failure"
     /\ Includes(errorMessage, "need at least 1")
     /\ NoExternalCall
     /\ NoClassifierResult

\* C13 amended: a CSV without rows fails with the 'empty or invalid' message; a
\* corpus within the size ceiling whose rows leave no processable record fails
\* with the minimum-record-count message; in both cases no request is issued
\* and neither classifier produces a result.
C13_EmptyCorpusFails ==
  (results = 0 \/ (NoRecordProcessable /\ n <= 2500)) =>
     /\ NoExternalCall
     /\ NoClassifierResult
     /\ (pc # "start" /\ ~StreamFailed) =>
          /\ pc = "done"
          /\ response = "failure"
          /\ IF results = 0
             THEN errorMessage = "Analysis failed: CSV file appears to be empty or invalid"
             ELSE Includes(errorMessage, "need at least 1")

\* C13 witness: rows exist, none is processable, and the run has failed
C13_Witness ==
  /\ results > 0
  /\ n >= 1
  /\ NoRecordProcessable
  /\ response = "failure"

\* C14: batchSize is max(50, ceil(n / 10)); the loop forms ceil(n / batchSize)
\* batches, never more than 10; every batch but the last has batchSize records and
\* the last has 1..batchSize; 55 records give two batches of 50 and 5.
C14_BatchSizing ==
  /\ n >= 1 =>
       /\ batchSize >= 50
       /\ 10 * batchSize >= n
       /\ batchSize > 50 => 10 * (batchSize - 1) < n
  /\ pc = "sliced" =>
       LET count == Len(batchLog)
       IN  /\ count <= 10
           /\ (count - 1) * batchSize < n
           /\ n <= count * batchSize
           /\ \A b \in 1..(count - 1) : batchLog[b].size = batchSize
           /\ batchLog[count].size \in 1..batchSize
           /\ n = 55 => count = 2 /\ batchLog[1].size = 50 /\ batchLog[2].size = 5

\* C14 witness: the 55 records have been sliced
C14_Witness ==
  /\ pc = "sliced"
  /\ n = 55
  /\ Len(batchLog) = 2

\* C15: a run with B batches waits exactly B-1 inter-batch delays: none before
\* the request of the first batch, one immediately before the request of every
\* later batch, whatever the earlier batches did.
C15_DelaysBetweenBatches ==
  [][/\ Len(batchLog') > Len(batchLog) =>
          /\ Len(batchLog') = Len(batchLog) + 1
          /\ delays' = delays
          /\ IF Len(batchLog) = 0
             THEN pc = "discovery" /\ delays = 0
             ELSE pc = "delay"
     /\ delays' > delays =>
          /\ delays' = delays + 1
          /\ pc' = "delay"
          /\ Len(batchLog') = delays'
          /\ batchLog'[Len(batchLog')].state \in {"Done", "Degraded"}
     /\ pc' = "delay" => delays' = Len(batchLog')
     /\ (pc' # "delay" /\ batchLog' # <<>>) => delays' = Len(batchLog') - 1]_vars

\* C15 witness: a run of three batches, one retried and one degraded, has
\* ended after two delays
C15_Witness ==
  /\ pc = "done"
  /\ Len(batchLog) = 3
  /\ delays = 2
  /\ \E b \in Batches : batchLog[b].requests = 2
  /\ \E b \in Batches : batchLog[b].state = "Degraded"

\* the batches whose request is outstanding
Outstanding == {b \in Batches : batchLog[b].state \in {"Attempt1", "Attempt2"}}

\* C16: batches are processed in corpus order and one at a time: at most one
\* request is outstanding, a batch is requested only after all earlier batches
\* are Done or Degraded, and every step that changes the accumulator appends
\* the entries of the one current batch after those of the earlier batches.
C16_SequentialBatches ==
  [][/\ Cardinality(Outstanding') <= 1
     /\ \A b \in 1..(Len(batchLog') - 1) :
          /\ Settled(b)'
          /\ batchLog'[b + 1].start > batchLog'[b].start
          /\ batchLog'[b + 1].from = batchLog'[b].from + batchLog'[b].pushed
     /\ Len(batchLog') > Len(batchLog) => \A b \in Batches : Settled(b)
     /\ commentClassifications' # commentClassifications =>
          LET b == Len(batchLog)
          IN  /\ pc \in {"attempt1", "attempt2"}
              /\ b >= 1
              /\ Outstanding = {b}
              /\ Settled(b)'
              /\ batchLog'[b].from = Len(commentClassifications)
              /\ Len(commentClassifications') =
                   Len(commentClassifications) + batchLog'[b].pushed
              /\ SubSeq(commentClassifications', 1, Len(commentClassifications)) =
                   commentClassifications
              /\ \A o \in 1..(b - 1) : batchLog'[o] = batchLog[o]]_vars

\* C16 witness: three batches were processed, one of them with a retry, and each
\* pushed its entries
C16_Witness ==
  /\ pc = "done"
  /\ Len(batchLog) = 3
  /\ \E b \in Batches : batchLog[b].requests = 2 /\ batchLog[b].pushed > 0
  /\ \A b \in Batches : batchLog[b].pushed > 0

\* C17: in a success result every group's enhancedByAI and metadata.aiEnhanced
\* are true exactly when the groups come from discovery plus batch
\* classification, and false exactly when they come from the keyword table.
C17_AIFlagTellsPath ==
  response = "success" =>
     /\ path \in {"ai", "fallback"}
     /\ aiEnhanced = (path = "ai")
     /\ \A t \in 1..Len(finalTopics) : finalTopics[t].enhancedByAI = (path = "ai")

RECURSIVE SumPercentages(_, _)
SumPercentages(topics, k) ==
  IF k = 0 THEN 0 ELSE topics[k].percentage + SumPercentages(topics, k - 1)

\* C18: in every success result with G groups the percentages of the groups sum
\* to a value that differs from 100 by at most G.
C18_PercentagesNearHundred ==
  response = "success" =>
     LET G == Len(finalTopics)
         total == SumPercentages(finalTopics, G)
     IN  total >= 100 - G /\ total <= 100 + G

\* group a may stand immediately before group b in the output
GoesBefore(a, b) ==
  \/ a.businessImpact = "high" /\ b.businessImpact \in {"medium", "low"}
  \/ a.businessImpact = "medium" /\ b.businessImpact = "low"
  \/ a.businessImpact = b.businessImpact /\ a.volume >= b.volume

\* the groups of a sequence, as a set
GroupSet(topics) == {topics[t] : t \in 1..Len(topics)}

\* C19: the returned groups are the built groups, ordered by businessImpact
\* descending (high, medium, low) and within equal businessImpact by volume
\* descending: every adjacent pair a, b satisfies impact(a) > impact(b), or
\* impact(a) = impact(b) and volume(a) >= volume(b).
C19_GroupsSorted ==
  response = "success" =>
     /\ \A t \in 1..Len(finalTopics) : finalTopics[t].businessImpact \in {"high", "medium", "low"}
     /\ \A t \in 1..(Len(finalTopics) - 1) : GoesBefore(finalTopics[t], finalTopics[t + 1])
     /\ LET built == IF path = "ai" THEN AITopics(commentClassifications, identifiedThemes)
                     ELSE FallbackTopics
        IN  Len(finalTopics) = Len(built) /\ GroupSet(finalTopics) = GroupSet(built)

\* C19 witness: a result of three or more groups in which the impact falls
\* between two adjacent groups and the volume falls between two adjacent groups
\* of equal impact
C19_Witness ==
  /\ response = "success"
  /\ Len(finalTopics) >= 3
  /\ \E t \in 1..(Len(finalTopics) - 1) :
       finalTopics[t].businessImpact # finalTopics[t + 1].businessImpact
  /\ \E t \in 1..(Len(finalTopics) - 1) :
       /\ finalTopics[t].businessImpact = finalTopics[t + 1].businessImpact
       /\ finalTopics[t].volume > finalTopics[t + 1].volume

\* the payload arrived but is no usable classification list
Malformed(resp) == resp.kind = "text" /\ ~(resp.parses /\ resp.hasList)

\* C20: the step that receives a malformed response for the current batch keeps
\* the entries of the earlier batches, appends one degraded entry per record of
\* this batch, and goes on: to the delay before the next batch while batches
\* remain, and after the last batch to the grouping of the accumulated entries
\* and the await of the per-theme analysis; the keyword table is not used
\* because of this response: the grouping throws or the analysis is rejected
\* only when the entries of the earlier batches make it so by themselves, and
\* the step after the await ends the run with the groups of the batch entries
\* unless the analysis was rejected.  The delay is always followed by the
\* request of the next batch.
C20_MalformedBatchRecoveredLocally ==
  [][/\ \A b \in Batches :
          (/\ b = Len(batchLog)
           /\ ~Settled(b)
           /\ Settled(b)'
           /\ Malformed(IF batchLog'[b].retry = "none"
                        THEN FirstResponse(b)' ELSE RetryResponse(b)')) =>
             LET start == batchLog[b].start
                 size  == batchLog[b].size
                 before == Len(commentClassifications)
             IN  /\ SubSeq(commentClassifications', 1, before) = commentClassifications
                 /\ Len(commentClassifications') = before + size
                 /\ \A j \in 1..size :
                      commentClassifications'[before + j] =
                        [commentIndex |-> start + j,
                         themeName |-> FirstThemeOrUncategorized,
                         confidence |-> 50]
                 /\ \A o \in 1..(b - 1) : batchLog'[o] = batchLog[o]
                 /\ IF start + size < n
                    THEN /\ pc' = "delay"
                         /\ i' = start + size
                         /\ response' = "none"
                         /\ path' = "none"
                    ELSE IF GroupingThrows(commentClassifications, identifiedThemes)
                    THEN /\ pc' = "done"
                         /\ response' = "success"
                         /\ path' = "fallback"
                    ELSE /\ pc' = "analysis"
                         /\ response' = "none"
                         /\ path' = "none"
                         /\ themeTopics'.status \in {"fulfilled", "rejected"}
                         /\ themeTopics'.status = "rejected" =>
                              AnalysisRejects(commentClassifications, identifiedThemes)
     /\ pc = "analysis" =>
          /\ pc' = "done"
          /\ response' = "success"
          /\ path' = (IF themeTopics.status = "rejected" THEN "fallback" ELSE "ai")
          /\ commentClassifications' = commentClassifications
     /\ pc = "delay" =>
          /\ pc' = "attempt1"
          /\ Len(batchLog') = Len(batchLog) + 1
          /\ batchLog'[Len(batchLog')].start = i
          /\ batchLog'[Len(batchLog')].state = "Attempt1"
          /\ commentClassifications' = commentClassifications]_vars

\* the record indices (0-based) of the members of returned group t, in order
GroupIndices(t) ==
  [m \in 1..Len(finalTopics[t].comments) |-> finalTopics[t].comments[m].originalIndex]

\* the returned groups hold the batch entries of their own theme, in the order
\* the batches pushed them, and nothing else
AllByBatchEntries ==
  \A t \in 1..Len(finalTopics) :
     LET Mine(entry) == finalTopics[t].title =
                          (IF entry.themeName = "" THEN "Uncategorized" ELSE entry.themeName)
         mine == SelectSeq(commentClassifications, Mine)
     IN  /\ finalTopics[t].enhancedByAI
         /\ finalTopics[t].title \in KeySet(Names(identifiedThemes)) \cup {"Uncategorized"}
         /\ GroupIndices(t) = [m \in 1..Len(mine) |-> mine[m].commentIndex - 1]

\* the returned groups hold the records that the keyword table gives their
\* theme, every record once, whatever the batches pushed
AllByTableOnly ==
  /\ \A t \in 1..Len(finalTopics) :
       LET Mine(idx) == TableTheme[comments[idx + 1]] = finalTopics[t].title
       IN  /\ ~finalTopics[t].enhancedByAI
           /\ GroupIndices(t) = SelectSeq([k \in 1..n |-> k - 1], Mine)
           /\ \A u \in 1..Len(finalTopics) :
                u # t => finalTopics[u].title # finalTopics[t].title
  /\ SumVolumes(finalTopics, Len(finalTopics)) = n

\* C21: a returned result is built by one classifier only: either every group
\* holds batch entries and nothing else, or every record is placed once by the
\* keyword table and no group holds a batch entry, also when the grouping of
\* the batch entries failed after batches had been classified.
C21_OneClassifierPerResult ==
  response = "success" =>
     \/ path = "ai" /\ AllByBatchEntries
     \/ path = "fallback" /\ AllByTableOnly

\* C21 witness: batches were classified, the grouping of their entries failed,
\* and the result is the keyword table's
C21_Witness ==
  /\ response = "success"
  /\ path = "fallback"
  /\ Len(batchLog) >= 2
  /\ \E b \in Batches : batchLog[b].state = "Done" /\ batchLog[b].pushed > 0
  /\ commentClassifications # <<>>

\* the themes of the table with the greatest keyword count for the text
GreatestCount(text) ==
  {k \in 1..Len(fallbackThemes) :
     \A o \in 1..Len(fallbackThemes) :
        KeywordMatches(text, fallbackThemes[o]) <= KeywordMatches(text, fallbackThemes[k])}

NoKeyword(text) ==
  \A k \in 1..Len(fallbackThemes) : KeywordMatches(text, fallbackThemes[k]) = 0

\* per text: the theme and the confidence that the table rules give it
TableRule == [t \in TextSet |->
  IF NoKeyword(t) THEN [theme |-> "Other", confidence |-> 30]
  ELSE [theme |-> fallbackThemes[CHOOSE k \in GreatestCount(t) :
                                   \A o \in GreatestCount(t) : k <= o].name,
        confidence |-> 70]]

\* per text: is the greatest keyword count positive and shared by two themes
SharedGreatest == [t \in TextSet |-> ~NoKeyword(t) /\ Cardinality(GreatestCount(t)) >= 2]

\* C22: on the fallback path every record sits in the group of the table theme
\* with the greatest keyword count, the first such theme in table order when
\* several share it, and in 'Other' when no keyword matches; its confidence is
\* 0.7 with a match and 0.3 without.
C22_KeywordTableAssignment ==
  (response = "success" /\ path = "fallback") =>
     /\ SumVolumes(finalTopics, Len(finalTopics)) = n
     /\ \A t \in 1..Len(finalTopics) :
          /\ \A m \in 1..Len(finalTopics[t].comments) :
               LET member == finalTopics[t].comments[m]
                   rule == TableRule[comments[member.originalIndex + 1]]
               IN  /\ finalTopics[t].title = rule.theme
                   /\ member.confidence = rule.confidence
                   /\ m > 1 => finalTopics[t].comments[m - 1].originalIndex < member.originalIndex
          /\ \A u \in 1..Len(finalTopics) :
               u # t => finalTopics[u].title # finalTopics[t].title

\* C22 witness: the keyword table placed a record whose greatest count is shared
\* by two themes, and a record without any keyword
C22_Witness ==
  /\ response = "success"
  /\ path = "fallback"
  /\ \E idx \in 1..n : SharedGreatest[comments[idx]]
  /\ \E idx \in 1..n : TableRule[comments[idx]].theme = "Other"

\* per text: the member sentiment by the rules: a negative trigger word decides,
\* else a positive trigger word decides, else the comparative score against +-0.1
RuleSentiment == [t \in TextSet |->
  LET HasTrigger(words) == \E w \in words : Includes(t, w)
      score == sentiment[t].score
      words == sentiment[t].words
  IN  IF HasTrigger({"expensive", "costly", "overpriced", "disappointed", "terrible",
                     "awful", "bad", "worst", "hate"}) THEN "negative"
      ELSE IF HasTrigger({"great", "excellent", "amazing", "love", "perfect",
                          "wonderful", "best", "fantastic"}) THEN "positive"
      ELSE IF 10 * score > words THEN "positive"
      ELSE IF 10 * score < 0 - words THEN "negative"
      ELSE "neutral"]

\* number of members of returned group t whose text has the sentiment by the rules
RuleCount(t, label) ==
  Cardinality({m \in 1..Len(finalTopics[t].comments) :
     RuleSentiment[comments[finalTopics[t].comments[m].originalIndex + 1]] = label})

\* C23: a returned group is 'positive' exactly when its positive member count
\* strictly exceeds both other counts, 'negative' exactly when its negative
\* count strictly exceeds both others, and 'neutral' otherwise, ties included.
C23_GroupSentimentStrictMajority ==
  response = "success" =>
     \A t \in 1..Len(finalTopics) :
        LET pos == RuleCount(t, "positive")
            neg == RuleCount(t, "negative")
            neu == RuleCount(t, "neutral")
            class == finalTopics[t].sentiment.classification
        IN  /\ pos + neg + neu = finalTopics[t].volume
            /\ class \in {"positive", "negative", "neutral"}
            /\ (class = "positive") = (pos > neg /\ pos > neu)
            /\ (class = "negative") = (neg > pos /\ neg > neu)

\* C23 witness: one returned group has a strict majority against a non-empty
\* minority, and another has its greatest count shared by two sentiments
C23_Witness ==
  /\ response = "success"
  /\ \E t \in 1..Len(finalTopics) :
       LET c == finalTopics[t].sentiment
       IN  /\ c.classification = "positive"
           /\ c.positive >= 2
           /\ c.negative + c.neutral >= 1
  /\ \E t \in 1..Len(finalTopics) :
       LET c == finalTopics[t].sentiment
       IN  /\ c.classification = "neutral"
           /\ \/ c.positive = c.negative /\ c.positive > c.neutral
              \/ c.positive = c.neutral /\ c.positive > c.negative
              \/ c.negative = c.neutral /\ c.negative > c.positive

\* C24: every returned group, on either path, has businessImpact 'high' exactly
\* when its sentiment is negative and its percentage exceeds 10, else 'medium'
\* exactly when its percentage exceeds 15, else 'low'.
C24_BusinessImpactRule ==
  response = "success" =>
     \A t \in 1..Len(finalTopics) :
        LET g == finalTopics[t]
            high == g.sentiment.classification = "negative" /\ g.percentage > 10
        IN  /\ g.businessImpact \in {"high", "medium", "low"}
            /\ (g.businessImpact = "high") = high
            /\ (g.businessImpact = "medium") = (~high /\ g.percentage > 15)
            /\ (g.businessImpact = "low") = (~high /\ g.percentage <= 15)

\* C24 witness: a result with a high group, with a positive or neutral group
\* above 15 percent that is medium, and with a low group
C24_Witness ==
  /\ response = "success"
  /\ \E t \in 1..Len(finalTopics) : finalTopics[t].businessImpact = "high"
  /\ \E t \in 1..Len(finalTopics) :
       /\ finalTopics[t].businessImpact = "medium"
       /\ finalTopics[t].sentiment.classification # "negative"
  /\ \E t \in 1..Len(finalTopics) : finalTopics[t].businessImpact = "low"

\* C25: every returned group has at least one member; a theme or catch-all
\* group ('Uncategorized', 'Other') is in the output exactly when a record
\* was assigned to it.
C25_NoEmptyGroup ==
  response = "success" =>
     /\ \A t \in 1..Len(finalTopics) :
          finalTopics[t].volume >= 1 /\ finalTopics[t].volume = Len(finalTopics[t].comments)
     /\ path = "ai" =>
          \A name \in KeySet(Names(identifiedThemes)) \cup {"Uncategorized"} :
             (\E t \in 1..Len(finalTopics) : finalTopics[t].title = name)
               = (\E k \in 1..Len(commentClassifications) :
                     name = (IF commentClassifications[k].themeName = "" THEN "Uncategorized"
                             ELSE commentClassifications[k].themeName))
     /\ path = "fallback" =>
          \A name \in KeySet(FallbackGroupKeys) :
             (\E t \in 1..Len(finalTopics) : finalTopics[t].title = name)
               = (\E k \in 1..n : TableRule[comments[k]].theme = name)

\* C25 witness: two themes were discovered, records went to one of them only,
\* and the output has that one group and no catch-all
C25_Witness ==
  /\ response = "success"
  /\ path = "ai"
  /\ Len(identifiedThemes) = 2
  /\ Len(finalTopics) = 1
  /\ finalTopics[1].title = identifiedThemes[1].name

\* C26: the sentiment counts of every returned group are the counts of its
\* members by the rules: a text with a negative trigger word counts negative
\* whatever its score and whatever positive trigger it also has, else a text with
\* a positive trigger word counts positive, else the comparative score decides
\* (> 0.1 positive, < -0.1 negative, else neutral).
C26_TriggerWordsBeforeScore ==
  response = "success" =>
     \A t \in 1..Len(finalTopics) :
        /\ finalTopics[t].sentiment.positive = RuleCount(t, "positive")
        /\ finalTopics[t].sentiment.negative = RuleCount(t, "negative")
        /\ finalTopics[t].sentiment.neutral = RuleCount(t, "neutral")
        /\ \A m \in 1..Len(finalTopics[t].comments) :
             LET text == comments[finalTopics[t].comments[m].originalIndex + 1]
             IN  (Includes(text, "expensive") \/ Includes(text, "terrible")) =>
                    finalTopics[t].sentiment.negative >= 1

\* C26 witness: a group of one record whose text has a negative trigger word and
\* a positive score was counted negative, and a group of one record whose text
\* has a positive trigger word and a negative score was counted positive
C26_Witness ==
  /\ response = "success"
  /\ \E t \in 1..Len(finalTopics) :
       /\ finalTopics[t].volume = 1
       /\ comments[finalTopics[t].comments[1].originalIndex + 1] = "expensive but great"
       /\ sentiment["expensive but great"].score > 0
       /\ finalTopics[t].sentiment.negative = 1
  /\ \E t \in 1..Len(finalTopics) :
       /\ finalTopics[t].volume = 1
       /\ comments[finalTopics[t].comments[1].originalIndex + 1] =
            "rude staff rude manager but perfect view"
       /\ sentiment["rude staff rude manager but perfect view"].score < 0
       /\ finalTopics[t].sentiment.positive = 1

\* C27: the sample sent with the discovery request is the first min(cap, n)
\* comments of the corpus in their order, with cap 30 when n * 20 exceeds 25000
\* and 50 otherwise; without a discovery request there is no sample.
C27_SampleIsCorpusPrefix ==
  /\ discoveryRequests = 0 => sampleComments = <<>>
  /\ discoveryRequests >= 1 =>
       LET cap == IF n * 20 > 25000 THEN 30 ELSE 50
       IN  /\ Len(sampleComments) = (IF n < cap THEN n ELSE cap)
           /\ \A k \in 1..Len(sampleComments) : sampleComments[k] = comments[k]

\* C27 witness: a corpus above the threshold was sampled
C27_Witness ==
  /\ discoveryRequests = 1
  /\ n * 20 > 25000
  /\ Len(sampleComments) = 30

\* C28: a run whose caller aborted while batches were being processed produces
\* no result, neither full nor partial: no response is sent and no groups are
\* built from the entries of the batches that had completed.
C28_AbortedRunProducesNoResult ==
  aborted => (response = "none" /\ finalTopics = <<>>)

\* the answer that decided batch b
DecidingShape(b) == IF batchLog[b].retry = "none" THEN batchLog[b].first ELSE batchLog[b].retry

\* the record indices (0-based) held by the returned groups
ReturnedIndices ==
  UNION {{finalTopics[t].comments[m].originalIndex : m \in 1..Len(finalTopics[t].comments)} :
           t \in 1..Len(finalTopics)}

\* C29: the entries of a degraded batch, and those of a batch whose answer
\* repeats the numbers of the prompt, carry the numbers start+1 .. start+size
\* of the batch's records within the whole corpus, and in the AI result each
\* of them is held under index number - 1, the index of its own record.
C29_CorpusWideNumbering ==
  /\ \A b \in Batches :
       (Settled(b) /\ (batchLog[b].state = "Degraded" \/ DecidingShape(b) = "full")) =>
          /\ batchLog[b].pushed = batchLog[b].size
          /\ \A j \in 1..batchLog[b].size :
               Segment(b)[j].commentIndex = batchLog[b].start + j
  /\ (response = "success" /\ path = "ai") =>
       /\ ReturnedIndices \subseteq 0..(n - 1)
       /\ \A b \in Batches :
            (batchLog[b].state = "Degraded" \/ DecidingShape(b) = "full") =>
               \A j \in 1..batchLog[b].size :
                  (batchLog[b].start + j) - 1 \in ReturnedIndices /\
                  (batchLog[b].start + j) - 1 \in BatchRange(b)

\* C29 witness: the second and third batch of a run were degraded and answered
\* in full, and the AI result holds every record
C29_Witness ==
  /\ response = "success"
  /\ path = "ai"
  /\ Len(batchLog) = 3
  /\ batchLog[2].state = "Degraded"
  /\ DecidingShape(3) = "full"
  /\ ReturnedIndices = 0..(n - 1)

RECURSIVE SumRequests(_)
SumRequests(b) == IF b = 0 THEN 0 ELSE batchLog[b].requests + SumRequests(b - 1)

\* C30: a run issues at most one discovery request, starts at most 10 batches
\* and issues at most 2 requests per batch: at most 21 requests in all.
C30_AtMostTwentyOneRequests ==
  /\ discoveryRequests <= 1
  /\ Len(batchLog) <= 10
  /\ \A b \in Batches : batchLog[b].requests \in {1, 2}
  /\ discoveryRequests + SumRequests(Len(batchLog)) <= 21

\* C30 witness: a run of ten batches has ended after 21 requests
C30_Witness ==
  /\ pc = "done"
  /\ Len(batchLog) = 10
  /\ discoveryRequests + SumRequests(Len(batchLog)) = 21


\* the responses that the run has sent, in order
Sent == SelectSeq(effects, LAMBDA e : e \in {"success", "failure"})

\* C31: when every request settles and every timer fires, every run eventually
\* sends a response and sends exactly one, a success result or a failure: at
\* no time have two responses been sent, a response once sent is never
\* replaced, and from some time on exactly one has been sent.
C31_ExactlyOneResponse ==
  /\ [](Len(Sent) <= 1)
  /\ [][response # "none" => response' = response /\ effects' = effects]_vars
  /\ <>[](/\ pc = "done"
          /\ Len(Sent) = 1
          /\ response \in {"success", "failure"}
          /\ response = Sent[1])

\* C32: a success result is sent only after every batch of the run has reached
\* Done or Degraded, and the batches of the run are all the batches of the
\* corpus: while a batch is unsettled no response has been sent, and a result
\* built from the batch entries is built from the entries of all of them,
\* never from those of a proper prefix.
C32_SuccessAfterAllBatches ==
  /\ (\E b \in Batches : ~Settled(b)) => response = "none"
  /\ (response = "success" /\ batchLog # <<>>) =>
       LET last == batchLog[Len(batchLog)]
       IN  /\ \A b \in Batches : Settled(b)
           /\ Len(batchLog) = CeilDiv(n, batchSize)
           /\ \A b \in Batches : batchLog[b].start = (b - 1) * batchSize
           /\ last.start + last.size = n
           /\ Len(commentClassifications) = last.from + last.pushed

\* C32 witness: a success result built from the entries of three batches, one
\* of them degraded and one settled by its retry
C32_SuccessOfThreeBatches ==
  /\ response = "success"
  /\ path = "ai"
  /\ Len(batchLog) = 3
  /\ batchLog[2].state = "Degraded"
  /\ batchLog[3].requests = 2
  /\ batchLog[3].state = "Done"

\* the batch that the loop is at
Current == Len(batchLog)

\* the step receives a first response of the current batch that cannot be parsed
UnparsableFirst ==
  /\ pc = "attempt1"
  /\ Unparsable(BatchResponse(batchLog'[Current].first, batchLog[Current].start,
                              identifiedThemes))

\* C33: the step that receives an unparsable first response degrades the batch
\* at once, with no cooldown and no second request; a cooldown is started only
\* by the step that receives a rate-limit error on a first attempt; the step
\* after a cooldown issues the retry of the same batch, its second request, and
\* the step that receives the retry's answer settles the batch with exactly
\* two requests before the next batch starts.
C33_CooldownOnlyAfterRateLimit ==
  [][/\ UnparsableFirst =>
          /\ batchLog'[Current].state = "Degraded"
          /\ batchLog'[Current].requests = 1
          /\ batchLog'[Current].retry = "none"
          /\ cooldowns' = cooldowns
          /\ pc' \in {"delay", "analysis", "done"}
     /\ cooldowns' # cooldowns =>
          /\ pc = "attempt1"
          /\ pc' = "cooldown"
          /\ cooldowns' = cooldowns + 1
          /\ Len(batchLog') = Len(batchLog)
          /\ RateSignal(BatchResponse(batchLog'[Current].first, batchLog[Current].start,
                                      identifiedThemes))
     /\ (pc = "cooldown" \/ pc' = "attempt2") =>
          /\ pc = "cooldown"
          /\ pc' = "attempt2"
          /\ Len(batchLog') = Len(batchLog)
          /\ i' = i
          /\ batchLog[Current].requests = 1
          /\ batchLog'[Current].requests = 2
          /\ batchLog'[Current].start = batchLog[Current].start
     /\ pc = "attempt2" =>
          /\ batchLog'[Current].state \in {"Done", "Degraded"}
          /\ batchLog'[Current].requests = 2
          /\ batchLog'[Current].retry # "none"
          /\ Len(batchLog') = Len(batchLog)
          /\ pc' \in {"delay", "analysis", "done"}]_vars

\* C33 witness: of three batches one got an unparsable first response and was
\* degraded after one request, and a later one was rate-limited, cooled down
\* and was retried once
C33_DegradedAndRetried ==
  /\ Len(batchLog) = 3
  /\ Settled(3)
  /\ \E b \in Batches :
       /\ Unparsable(FirstResponse(b))
       /\ batchLog[b].state = "Degraded"
       /\ batchLog[b].requests = 1
       /\ \E c \in Batches :
            /\ c > b
            /\ batchLog[c].first = "rateLimit"
            /\ batchLog[c].requests = 2
  /\ cooldowns = 1

\* what batch b of the run pushes when it runs alone and receives the
\* responses that the log records for it
AloneSegment(b) ==
  IF ~Settled(b) THEN <<>>
  ELSE IF batchLog[b].retry = "none"
  THEN FirstAttempt(FirstResponse(b), batchLog[b].start, identifiedThemes).pushed
  ELSE RetryAttempt(RetryResponse(b), batchLog[b].start, identifiedThemes).pushed

\* the accumulator of the run alone after its first b batches
RECURSIVE AloneClassifications(_)
AloneClassifications(b) ==
  IF b = 0 THEN <<>> ELSE AloneClassifications(b - 1) \o AloneSegment(b)

\* the groups of the run alone
AloneTopics ==
  IF path = "ai"
  THEN SortTopics(AITopics(AloneClassifications(Len(batchLog)), identifiedThemes),
                  Len(AITopics(AloneClassifications(Len(batchLog)), identifiedThemes)))
  ELSE SortTopics(FallbackTopics, Len(FallbackTopics))

\* C34: of two runs interleaved at their suspension points, the executing
\* run's classifications, groups and result are those it produces alone on its
\* own records with the responses it received, and its steps leave the
\* suspended run's state as it was: a resumed run finds the state it left.
C34_RunsDoNotInterfere ==
  /\ [](/\ commentClassifications = AloneClassifications(Len(batchLog))
        /\ \A k \in 1..Len(commentClassifications) :
             commentClassifications[k].commentIndex \in 1..n
        /\ response = "success" => finalTopics = AloneTopics
        /\ response = "success" => SumVolumes(finalTopics, Len(finalTopics)) = n)
  /\ [][IF run' = run THEN other' = other
        ELSE Suspended' = other /\ other' = Suspended]_vars

\* C34 witness: run 1 returned a result built from its two batches although
\* run 2 was classified between run 1's batches and has returned its own
C34_InterleavedRuns ==
  /\ run = 1
  /\ response = "success"
  /\ path = "ai"
  /\ Len(batchLog) = 2
  /\ other.response = "success"
  /\ other.path = "ai"
  /\ other.commentClassifications # <<>>
  /\ Len(commentClassifications) = FirstRunRecords

\* the record indices (0-based) held by returned group t, as a set
IndexSet(t) == {GroupIndices(t)[m] : m \in 1..Len(GroupIndices(t))}

\* C35: on the fallback path the returned groups partition the record indices
\* 0..n-1: together they hold every index, no group holds an index twice, no
\* two groups share an index, and the group of an index is the theme that
\* keyword matching chooses for that record.
C35_FallbackGroupsPartition ==
  (response = "success" /\ path = "fallback") =>
     /\ UNION {IndexSet(t) : t \in 1..Len(finalTopics)} = 0..(n - 1)
     /\ \A t \in 1..Len(finalTopics) :
          /\ Cardinality(IndexSet(t)) = Len(finalTopics[t].comments)
          /\ finalTopics[t].volume = Len(finalTopics[t].comments)
          /\ \A u \in 1..Len(finalTopics) : u # t => IndexSet(t) \cap IndexSet(u) = {}
          /\ \A idx \in IndexSet(t) : TableTheme[comments[idx + 1]] = finalTopics[t].title

\* C35 witness: a fallback result of at least three groups, 'Other' among them,
\* over a corpus in which some record holds keywords of two themes
C35_ThreeFallbackGroups ==
  /\ response = "success"
  /\ path = "fallback"
  /\ Len(finalTopics) >= 3
  /\ \E t \in 1..Len(finalTopics) : finalTopics[t].title = "Other"
  /\ \E k \in 1..n :
       Cardinality({j \in 1..Len(fallbackThemes) :
                      KeywordMatches(comments[k], fallbackThemes[j]) > 0}) >= 2

\* the accumulated entries that carry no themeName
Unnamed == SelectSeq(commentClassifications, LAMBDA e : e.themeName = "")

\* the confidence with which an entry counts
CountedConfidence(entry) == IF entry.confidence = 0 THEN 50 ELSE entry.confidence

\* C36: on the AI path an entry without themeName is a member of the returned
\* group 'Uncategorized', and every member of every group counts with the
\* confidence of its entry, or with 0.5 when the entry has none; the group's
\* confidence is the rounded mean of these.
C36_MissingFieldsDefaulted ==
  (response = "success" /\ path = "ai") =>
     /\ Unnamed # <<>> =>
          \E t \in 1..Len(finalTopics) :
             /\ finalTopics[t].title = "Uncategorized"
             /\ \A j \in 1..Len(Unnamed) : Unnamed[j].commentIndex - 1 \in IndexSet(t)
     /\ \A t \in 1..Len(finalTopics) :
          LET Mine(e) == finalTopics[t].title =
                           (IF e.themeName = "" THEN "Uncategorized" ELSE e.themeName)
              mine == SelectSeq(commentClassifications, Mine)
              members == finalTopics[t].comments
              counted == [m \in 1..Len(mine) |-> [confidence |-> CountedConfidence(mine[m])]]
          IN  /\ Len(members) = Len(mine)
              /\ \A m \in 1..Len(mine) :
                   /\ members[m].originalIndex = mine[m].commentIndex - 1
                   /\ members[m].confidence = CountedConfidence(mine[m])
              /\ finalTopics[t].confidence =
                   MeanConfidence(counted)

\* C36 witness: themes were discovered, an entry came without themeName and
\* one without confidence, and the result has 'Uncategorized' and another group
C36_EntriesWithoutFields ==
  /\ response = "success"
  /\ path = "ai"
  /\ identifiedThemes # <<>>
  /\ Unnamed # <<>>
  /\ \E k \in 1..Len(commentClassifications) :
       /\ commentClassifications[k].confidence = 0
       /\ commentClassifications[k].themeName # ""
  /\ \E t \in 1..Len(finalTopics) :
       finalTopics[t].title = "Uncategorized" /\ finalTopics[t].confidence > 50
  /\ Len(finalTopics) >= 2

\* the removals of the uploaded file that the run has made
Unlinks == SelectSeq(effects, LAMBDA e : e = "unlink")

\* C37: the uploaded file is removed exactly once per run and before
\* the response is sent, on the success path and on the analysis-failure path:
\* it is never removed twice, nothing is removed or sent while the run is
\* under way, and a finished run has removed the file and then sent its
\* response.
C37_FileRemovedOnceBeforeResponse ==
  /\ Len(Unlinks) <= 1
  /\ \A k \in 1..Len(effects) :
       effects[k] \in {"success", "failure"} =>
          \E j \in 1..(k - 1) : effects[j] = "unlink"
  /\ pc # "done" => effects = <<>>
  /\ pc = "done" =>
       /\ response \in {"success", "failure"}
       /\ effects = <<"unlink", response>>

\* the topics whose request has settled, and how the request of topic k ended
SettledTopics == {completionOrder[p][1] : p \in 1..Len(completionOrder)}
OutcomeOf(k) ==
  LET p == CHOOSE q \in 1..Len(completionOrder) : completionOrder[q][1] = k
  IN  completionOrder[p][2]

\* the locally computed fields of topic k are those of result t
LocalFieldsKept(k, t) ==
  /\ t.topicId = topicAnalysis[k].topicId
  /\ t.title = topicAnalysis[k].title
  /\ t.volume = topicAnalysis[k].volume
  /\ t.percentage = topicAnalysis[k].percentage
  /\ t.sentiment = topicAnalysis[k].sentiment
  /\ t.businessImpact = topicAnalysis[k].businessImpact

\* what the run returns for given outcomes of its topics, whatever their order
ExpectedTopics ==
  LET each == [k \in 1..Len(topicAnalysis) |->
                 IF OutcomeOf(k) = "ok" THEN Enhanced(topicAnalysis[k])
                 ELSE NotEnhanced(topicAnalysis[k])]
  IN  SortTopics(each, Len(each))

\* C38: in the per-topic enhancement of the first variant a topic whose
\* request or whose parsing failed keeps its locally computed fields with
\* enhancedByAI false, the settling of one topic leaves the result of every
\* other topic as it was, and the returned topics are one per non-empty topic,
\* each determined by the outcome of its own request alone, in whatever order
\* the requests completed.
C38_TopicFailuresAreIsolated ==
  /\ [](/\ DOMAIN enhancedTopics = SettledTopics
        /\ \A k \in SettledTopics :
             /\ OutcomeOf(k) # "ok" =>
                  /\ enhancedTopics[k].enhancedByAI = FALSE
                  /\ DOMAIN enhancedTopics[k] = DOMAIN topicAnalysis[k] \cup {"enhancedByAI"}
                  /\ LocalFieldsKept(k, enhancedTopics[k])
             /\ OutcomeOf(k) = "ok" => enhancedTopics[k] = Enhanced(topicAnalysis[k])
        /\ (pc = "done" /\ completionOrder # <<>>) =>
             /\ SettledTopics = 1..Len(topicAnalysis)
             /\ Len(finalTopics) = Len(topicAnalysis)
             /\ finalTopics = ExpectedTopics
        /\ pc = "done" => Len(finalTopics) = Len(topicAnalysis))
  /\ [][\A k \in DOMAIN enhancedTopics :
          k \in DOMAIN enhancedTopics' /\ enhancedTopics'[k] = enhancedTopics[k]]_vars

\* C38 witness: of four topics the requests completed out of topic order, one
\* failed, one could not be parsed, and the other two were enhanced
C38_OneFailedOthersEnhanced ==
  /\ pc = "done"
  /\ Len(topicAnalysis) = 4
  /\ Len(completionOrder) = 4
  /\ completionOrder[1][1] > completionOrder[2][1]
  /\ \E k \in SettledTopics : OutcomeOf(k) = "requestError"
  /\ \E k \in SettledTopics : OutcomeOf(k) = "parseError"
  /\ Cardinality({k \in SettledTopics : OutcomeOf(k) = "ok"}) = 2
  /\ Len(finalTopics) = 4

====
